---------------------------- MODULE Spec2Model ----------------------------
(***************************************************************************)
(* A model of stealthsnark: the EMSM masking engine (RAA operator,         *)
(* Dual-LPN sampler, encrypt / server-compute / decrypt, the malicious     *)
(* double-query check), the Groth16 orchestrator's decrypt step and the    *)
(* session server.                                                         *)
(*                                                                         *)
(* Arrays (Vec<T>, slices) are functions over 0..len-1, as in the source.  *)
(* The scalar field is F_p for a small prime p; the curve groups G1 and G2 *)
(* are cyclic of prime order p, so each is written additively as Z_p with  *)
(* a point standing for its discrete logarithm: point addition is addition *)
(* mod p and scalar multiplication is multiplication mod p.                *)
(***************************************************************************)
EXTENDS Integers, Sequences, FiniteSets, TLC

(***************************************************************************)
(* Bounds of the model.                                                    *)
(***************************************************************************)
\* Generator vectors have 0..MaxN elements (so the expanded dimension is at most
\* 4 * MaxN, and the folds of the RAA operator have up to MaxN groups).
MaxN == 2
\* Random number generators are seeded with 0..MaxSeed.
MaxSeed == 4
\* A cheating server moves the responses of at most MaxTampered of the five slots.
MaxTampered == 2
\* The server is watched until MaxRequests requests have arrived.
MaxRequests == 3
\* Vectors put on the wire element by element, and byte strings taken off it,
\* have up to MaxLen elements or words.
MaxLen == 3

\* The order of the scalar field ark_bn254::Fr and of the groups G1 and G2 over
\* it: a prime.  The model takes the smallest odd prime for BN254's 254-bit one.
FieldOrder == 3

F == 0 .. (FieldOrder - 1)
G == 0 .. (FieldOrder - 1)

FAdd(a, b) == (a + b) % FieldOrder
FMul(a, b) == (a * b) % FieldOrder
\* point + point, point - point, point * scalar
GAdd(a, b) == (a + b) % FieldOrder
GSub(a, b) == (a + FieldOrder - b) % FieldOrder
GMul(pt, s) == (pt * s) % FieldOrder

(***************************************************************************)
(* Vectors.                                                                *)
(***************************************************************************)
VLen(v) == Cardinality(DOMAIN v)
EmptyVec == [i \in {} |-> 0]
\* All vectors of length n over S.
Vecs(S, n) == [0 .. (n - 1) -> S]

\* The vector f with every element computed once (vec.collect()).
RECURSIVE Tabulate(_, _)
Tabulate(f, k) == IF k = 0 THEN EmptyVec ELSE Tabulate(f, k - 1) @@ ((k - 1) :> f[k - 1])
Collect(f) == Tabulate(f, VLen(f))

Min(a, b) == IF a <= b THEN a ELSE b
Max(a, b) == IF a >= b THEN a ELSE b

(***************************************************************************)
(* The random number generator (ark_std::rand::Rng).  Its state is a       *)
(* number; every draw advances it.  The generator itself lives outside the *)
(* repository: it is a fixed deterministic stream per seed, as test_rng()  *)
(* and ChaCha20Rng::seed_from_u64 are.                                     *)
(***************************************************************************)
Seeds == 0 .. MaxSeed
seed_from_u64(seed) == (seed * 37 + 11) % 127
RngAdvance(s) == (s * 5 + 17) % 127
\* rng.gen_range(lo..hi): one draw, hi > lo
gen_range(s, lo, hi) == [val |-> lo + (RngAdvance(s) % (hi - lo)), rng |-> RngAdvance(s)]
\* F::rand(rng) and G::rand(rng): one draw, uniform over the whole set (zero included)
rand(s) == [val |-> RngAdvance(s) % FieldOrder, rng |-> RngAdvance(s)]

(***************************************************************************)
(* emsm/params.rs                                                          *)
(***************************************************************************)
\* (mutant) each boundary n = 2^k is put in the step above it
RawT_strict(n) ==
    IF n < 1024 THEN 29
    ELSE IF n < 2048 THEN 33
    ELSE IF n < 4096 THEN 38
    ELSE IF n < 8192 THEN 43
    ELSE IF n < 16384 THEN 48
    ELSE IF n < 32768 THEN 54
    ELSE IF n < 65536 THEN 60
    ELSE IF n < 131072 THEN 67
    ELSE IF n < 262144 THEN 74
    ELSE IF n < 524288 THEN 82
    ELSE IF n < 1048576 THEN 90
    ELSE IF n < 2097152 THEN 99
    ELSE IF n < 4194304 THEN 108
    ELSE IF n < 8388608 THEN 118
    ELSE 128

\* (mutant) two digits of a table value are swapped: 34 for 43
RawT_typo(n) ==
    IF n <= 1024 THEN 29
    ELSE IF n <= 2048 THEN 33
    ELSE IF n <= 4096 THEN 38
    ELSE IF n <= 8192 THEN 34
    ELSE IF n <= 16384 THEN 48
    ELSE IF n <= 32768 THEN 54
    ELSE IF n <= 65536 THEN 60
    ELSE IF n <= 131072 THEN 67
    ELSE IF n <= 262144 THEN 74
    ELSE IF n <= 524288 THEN 82
    ELSE IF n <= 1048576 THEN 90
    ELSE IF n <= 2097152 THEN 99
    ELSE IF n <= 4194304 THEN 108
    ELSE IF n <= 8388608 THEN 118
    ELSE 128

RawT(n) ==
    IF n <= 1024 THEN 29
    ELSE IF n <= 2048 THEN 33
    ELSE IF n <= 4096 THEN 38
    ELSE IF n <= 8192 THEN 43
    ELSE IF n <= 16384 THEN 48
    ELSE IF n <= 32768 THEN 54
    ELSE IF n <= 65536 THEN 60
    ELSE IF n <= 131072 THEN 67
    ELSE IF n <= 262144 THEN 74
    ELSE IF n <= 524288 THEN 82
    ELSE IF n <= 1048576 THEN 90
    ELSE IF n <= 2097152 THEN 99
    ELSE IF n <= 4194304 THEN 108
    ELSE IF n <= 8388608 THEN 118
    ELSE 128

\* (mutant) t is not clamped to the expanded length
get_lpn_params_unclamped(n) ==
    LET big_n == 4 * n
    IN  [n |-> n, big_n |-> big_n, t |-> RawT(n)]

get_lpn_params(n) ==
    LET big_n == 4 * n
    IN  [n |-> n, big_n |-> big_n, t |-> Min(RawT(n), Max(big_n, 1))]

(***************************************************************************)
(* emsm/sparse_vec.rs                                                      *)
(***************************************************************************)
\* (mutant) the offset drawn is taken for the index: base is not added
RECURSIVE ErrorVecLoop_no_base(_, _, _, _, _)
ErrorVecLoop_no_base(chunk_idx, t, chunk_size, entries, rng) ==
    IF chunk_idx >= t THEN [entries |-> entries, rng |-> rng]
    ELSE LET offset == gen_range(rng, 0, chunk_size)
             val    == rand(offset.rng)
         IN  ErrorVecLoop_no_base(chunk_idx + 1, t, chunk_size,
                                  Append(entries, <<offset.val, val.val>>), val.rng)

\* The loop of error_vec from chunk_idx on: one index draw, one value draw per chunk.
RECURSIVE ErrorVecLoop(_, _, _, _, _)
ErrorVecLoop(chunk_idx, t, chunk_size, entries, rng) ==
    IF chunk_idx >= t THEN [entries |-> entries, rng |-> rng]
    ELSE LET base   == chunk_idx * chunk_size
             offset == gen_range(rng, 0, chunk_size)
             val    == rand(offset.rng)
         IN  ErrorVecLoop(chunk_idx + 1, t, chunk_size,
                          Append(entries, <<base + offset.val, val.val>>), val.rng)

\* SparseVector::error_vec.  panicked: the assertion size >= t failed.
error_vec(size, t, rng) ==
    IF t = 0 \/ size = 0
    THEN [panicked |-> FALSE, size |-> size, entries |-> << >>, rng |-> rng]
    ELSE IF size < t
    THEN [panicked |-> TRUE, size |-> size, entries |-> << >>, rng |-> rng]
    ELSE LET r == ErrorVecLoop(0, t, size \div t, << >>, rng)
         IN  [panicked |-> FALSE, size |-> size, entries |-> r.entries, rng |-> r.rng]

\* The sum of the values of the entries 1..k that sit at index i.
RECURSIVE EntrySum(_, _, _)
EntrySum(entries, k, i) ==
    IF k = 0 THEN 0
    ELSE FAdd(EntrySum(entries, k - 1, i),
              IF entries[k][1] = i THEN entries[k][2] ELSE 0)

\* (mutant) dense[i] = v: the last entry at an index replaces those before it
Densify_overwrite(size, entries) ==
    Collect([i \in 0 .. (size - 1) |->
        LET hits == {k \in 1 .. Len(entries) : entries[k][1] = i}
        IN  IF hits = {} THEN 0
            ELSE entries[CHOOSE k \in hits : \A m \in hits : m <= k][2]])

\* vec![F::zero(); size], then dense[i] += v for every entry
Densify(size, entries) ==
    Collect([i \in 0 .. (size - 1) |-> EntrySum(entries, Len(entries), i)])

(***************************************************************************)
(* emsm/raa_code.rs                                                        *)
(***************************************************************************)
\* (mutant) half a swap: perm[i] takes perm[j], perm[j] stays
Swap_half(perm, i, j) == [perm EXCEPT ![i] = perm[j]]

\* perm.swap(i, j)
Swap(perm, i, j) == [perm EXCEPT ![i] = perm[j], ![j] = perm[i]]

\* Fisher-Yates: for i in (1..n).rev() { j = gen_range(0..=i); swap(i, j) }
RECURSIVE FisherYates(_, _, _)
FisherYates(perm, i, rng) ==
    IF i < 1 THEN [perm |-> perm, rng |-> rng]
    ELSE LET j == gen_range(rng, 0, i + 1)
         IN  FisherYates(Swap(perm, i, j.val), i - 1, j.rng)

random_permutation(n, rng) == FisherYates(Collect([i \in 0 .. (n - 1) |-> i]), n - 1, rng)

\* inv = vec![0; len]; for (i, p) in perm: inv[p] = i  (the last write wins)
inverse_permutation(perm) ==
    Collect([p \in DOMAIN perm |->
        LET hits == {i \in DOMAIN perm : perm[i] = p}
        IN  IF hits = {} THEN 0 ELSE CHOOSE i \in hits : \A k \in hits : k <= i])

\* A TOperator over the permutations p and q of 0 .. 4n-1: the struct as rand
\* fills it, each inverse field being the inverse of its permutation
TOperator_of(n, p, q) ==
    [perm_p |-> p, perm_q |-> q,
     inv_perm_p |-> inverse_permutation(p), inv_perm_q |-> inverse_permutation(q),
     big_n |-> 4 * n, n |-> n]

\* TOperator::rand
TOperator_rand(n, rng) ==
    LET big_n == 4 * n
        p == random_permutation(big_n, rng)
        q == random_permutation(big_n, p.rng)
    IN  [op |-> [perm_p |-> p.perm, perm_q |-> q.perm,
                 inv_perm_p |-> inverse_permutation(p.perm),
                 inv_perm_q |-> inverse_permutation(q.perm),
                 big_n |-> big_n, n |-> n],
         rng |-> q.rng]

PARALLEL_THRESHOLD == 65536

\* usize::div_ceil
div_ceil(a, b) == (a + b - 1) \div b

\* The parallel branch of accumulate_inplace on the vector of n copies of elem,
\* n >= PARALLEL_THRESHOLD, in a pool of num_threads threads.  par_chunks_mut
\* yields div_ceil(n, chunk_size) chunks, all of chunk_size elements but the last,
\* and chunk_sums has one element per chunk; the second loop of phase 2 reads
\* chunk_sums[i] for every i below num_chunks, starting from the last, and panics
\* on an index chunk_sums does not have.  The sums of copies of elem are written
\* as products.  at[i] is the element left at index i, for the indices asked.
accumulate_inplace_parallel(elem, n, num_threads, indices) ==
    LET num_chunks == Max(Min(num_threads, n \div 1024), 1)
        chunk_size == div_ceil(n, num_chunks)
        chunks     == div_ceil(n, chunk_size)
        chunk_end(c) == Min((c + 1) * chunk_size, n)
        \* phase 1: what the local suffix sum leaves at index i
        local(i) == FMul((chunk_end(i \div chunk_size) - i) % FieldOrder, elem)
        \* phase 2: corrections[c] = the sum of chunk_sums[c + 1 ..]
        corrections(c) == FMul((n - chunk_end(c)) % FieldOrder, elem)
    IN  IF num_chunks > chunks
        THEN [panicked |-> TRUE, num_chunks |-> num_chunks, chunk_size |-> chunk_size,
              chunks |-> chunks, at |-> [i \in indices |-> elem]]
        ELSE [panicked |-> FALSE, num_chunks |-> num_chunks, chunk_size |-> chunk_size,
              chunks |-> chunks,
              \* phase 3: every element of chunk c has corrections[c] added
              at |-> [i \in indices |-> FAdd(local(i), corrections(i \div chunk_size))]]

\* Suffix sum, right to left: v[i] = sum(v[i..]).  (The sequential branch: every
\* vector of the model that is written out is shorter than PARALLEL_THRESHOLD.)
RECURSIVE SuffixFrom(_, _)
SuffixFrom(v, i) == IF i >= VLen(v) THEN 0 ELSE FAdd(v[i], SuffixFrom(v, i + 1))

\* (mutant) the sum runs left to right: v[i] = sum(v[0..=i])
accumulate_inplace_prefix(v) ==
    Collect([i \in DOMAIN v |->
        (SuffixFrom(v, 0) + FieldOrder - SuffixFrom(v, i + 1)) % FieldOrder])

accumulate_inplace(v) == Collect([i \in DOMAIN v |-> SuffixFrom(v, i)])

\* out[i] = v[perm[i]]
permute_safe(v, perm) == Collect([i \in DOMAIN perm |-> v[perm[i]]])
permute_safe_group(v, perm) == Collect([i \in DOMAIN perm |-> v[perm[i]]])

\* Prefix sum on group elements, left to right: v[i] = sum(v[0..=i])
RECURSIVE PrefixTo(_, _)
PrefixTo(v, i) == IF i < 0 THEN 0 ELSE GAdd(PrefixTo(v, i - 1), v[i])

prefix_sum_inplace_group(v) == Collect([i \in DOMAIN v |-> PrefixTo(v, i)])

\* Fold: sum groups of 4
apply_f_fold(v) ==
    Collect([i \in 0 .. ((VLen(v) \div 4) - 1) |->
        FAdd(FAdd(FAdd(v[4 * i], v[4 * i + 1]), v[4 * i + 2]), v[4 * i + 3])])

\* TOperator::multiply_sparse: F_r * M_p * A * M_q * A * e
multiply_sparse(op, sparse_entries) ==
    LET v0 == Densify(op.big_n, sparse_entries)
        v1 == accumulate_inplace(v0)
        v2 == permute_safe(v1, op.perm_q)
        v3 == accumulate_inplace(v2)
        v4 == permute_safe(v3, op.perm_p)
    IN  apply_f_fold(v4)

\* (mutant) the transpose permutes by p and q themselves, not by their inverses
multiply_transpose_group_fwd(op, g) ==
    LET v0 == Collect([i \in 0 .. (op.big_n - 1) |-> g[i \div 4]])
        v1 == permute_safe_group(v0, op.perm_p)
        v2 == prefix_sum_inplace_group(v1)
        v3 == permute_safe_group(v2, op.perm_q)
    IN  prefix_sum_inplace_group(v3)

\* TOperator::multiply_transpose_group: A^T * M_q^T * A^T * M_p^T * F_r^T
multiply_transpose_group(op, g) ==
    LET v0 == Collect([i \in 0 .. (op.big_n - 1) |-> g[i \div 4]])
        v1 == permute_safe_group(v0, op.inv_perm_p)
        v2 == prefix_sum_inplace_group(v1)
        v3 == permute_safe_group(v2, op.inv_perm_q)
    IN  prefix_sum_inplace_group(v3)

(***************************************************************************)
(* emsm/pedersen.rs                                                        *)
(***************************************************************************)
\* G::msm(bases, scalars) over the first k elements
RECURSIVE Msm(_, _, _)
Msm(bases, scalars, k) ==
    IF k = 0 THEN 0
    ELSE GAdd(Msm(bases, scalars, k - 1), GMul(bases[k - 1], scalars[k - 1]))

\* (mutant) the lengths are not compared: the MSM runs over the shorter vector
commit_shorter(generators, scalars) ==
    [ok |-> TRUE, err |-> "",
     val |-> Msm(generators, scalars, Min(VLen(scalars), VLen(generators)))]

\* Pedersen::commit: an error value when the lengths differ
commit(generators, scalars) ==
    IF VLen(scalars) # VLen(generators)
    THEN [ok |-> FALSE, err |-> "LengthMismatch", val |-> 0]
    ELSE [ok |-> TRUE, err |-> "", val |-> Msm(generators, scalars, VLen(scalars))]

\* Pedersen::commit_sparse: the MSM of the indexed bases against the entry values
RECURSIVE SparseMsm(_, _, _)
SparseMsm(generators, entries, k) ==
    IF k = 0 THEN 0
    ELSE GAdd(SparseMsm(generators, entries, k - 1),
              GMul(generators[entries[k][1]], entries[k][2]))

commit_sparse(generators, sparse) == SparseMsm(generators, sparse.entries, Len(sparse.entries))

(***************************************************************************)
(* emsm/dual_lpn.rs                                                        *)
(***************************************************************************)
\* DualLPNInstance::sample
DualLPNInstance_sample(op, t, rng) ==
    LET noise == error_vec(op.big_n, t, rng)
    IN  [lpn |-> [noise |-> [size |-> noise.size, entries |-> noise.entries],
                  lpn_vector |-> multiply_sparse(op, noise.entries)],
         panicked |-> noise.panicked,
         rng |-> noise.rng]

\* (mutant) the mask is subtracted: v = z - r
mask_witness_minus(lpn, z) ==
    Collect([i \in DOMAIN z |-> (z[i] + FieldOrder - lpn.lpn_vector[i]) % FieldOrder])

\* DualLPNInstance::mask_witness: v = z + r
mask_witness(lpn, z) == Collect([i \in DOMAIN z |-> FAdd(z[i], lpn.lpn_vector[i])])

(***************************************************************************)
(* emsm/emsm.rs                                                            *)
(***************************************************************************)
\* EmsmPublicParams::new
EmsmPublicParams_new(generators, rng) ==
    LET n == VLen(generators)
        lp == get_lpn_params(n)
        top == TOperator_rand(n, rng)
    IN  [params |-> [t_operator |-> top.op, generators |-> generators, t |-> lp.t],
         rng |-> top.rng]

\* EmsmPublicParams::preprocess: h = G^T * g
preprocess(params) == multiply_transpose_group(params.t_operator, params.generators)

\* EmsmPublicParams::server_computation
server_computation(params, masked_scalars) == commit(params.generators, masked_scalars)

\* encrypt
encrypt(params, z, rng) ==
    LET s == DualLPNInstance_sample(params.t_operator, params.t, rng)
    IN  [masked |-> mask_witness(s.lpn, z), lpn |-> s.lpn, rng |-> s.rng]

\* decrypt: server_result - <e, h>
decrypt(server_result, lpn, h) == GSub(server_result, commit_sparse(h, lpn.noise))

(***************************************************************************)
(* emsm/malicious.rs                                                       *)
(***************************************************************************)
\* (mutant) the check query encrypts z itself, not c * z
malicious_encrypt_plain_check(params, z, rng) ==
    LET c   == rand(rng)
        e1  == encrypt(params, z, c.rng)
        e2  == encrypt(params, z, e1.rng)
    IN  [encrypted |-> [masked |-> e1.masked, masked_check |-> e2.masked],
         state |-> [challenge |-> c.val, lpn |-> e1.lpn, lpn_check |-> e2.lpn],
         rng |-> e2.rng]

\* malicious_encrypt: the challenge, then two encryptions from the same rng
malicious_encrypt(params, z, rng) ==
    LET c   == rand(rng)
        e1  == encrypt(params, z, c.rng)
        c_witness == Collect([i \in DOMAIN z |-> FMul(c.val, z[i])])
        e2  == encrypt(params, c_witness, e1.rng)
    IN  [encrypted |-> [masked |-> e1.masked, masked_check |-> e2.masked],
         state |-> [challenge |-> c.val, lpn |-> e1.lpn, lpn_check |-> e2.lpn],
         rng |-> e2.rng]

\* malicious_server_evaluate: `?` on the first failing MSM
malicious_server_evaluate(params, encrypted) ==
    LET r1 == server_computation(params, encrypted.masked)
        r2 == server_computation(params, encrypted.masked_check)
    IN  IF ~r1.ok THEN [ok |-> FALSE, err |-> r1.err, em |-> 0, em_ck |-> 0]
        ELSE IF ~r2.ok THEN [ok |-> FALSE, err |-> r2.err, em |-> 0, em_ck |-> 0]
        ELSE [ok |-> TRUE, err |-> "", em |-> r1.val, em_ck |-> r2.val]

\* (mutant) the comparison is dropped: every response is accepted
malicious_decrypt_unchecked(server_result, server_result_check, state, h) ==
    [ok |-> TRUE, err |-> "", val |-> decrypt(server_result, state.lpn, h)]

\* (mutant) the check response is decrypted with the main query's noise
malicious_decrypt_one_lpn(server_result, server_result_check, state, h) ==
    LET dm    == decrypt(server_result, state.lpn, h)
        dm_ck == decrypt(server_result_check, state.lpn, h)
        expected_ck == GMul(dm, state.challenge)
    IN  IF dm_ck # expected_ck
        THEN [ok |-> FALSE, err |-> "ConsistencyCheckFailed", val |-> 0]
        ELSE [ok |-> TRUE, err |-> "", val |-> dm]

\* malicious_decrypt: dm_ck must equal c * dm
malicious_decrypt(server_result, server_result_check, state, h) ==
    LET dm    == decrypt(server_result, state.lpn, h)
        dm_ck == decrypt(server_result_check, state.lpn_check, h)
        expected_ck == GMul(dm, state.challenge)
    IN  IF dm_ck # expected_ck
        THEN [ok |-> FALSE, err |-> "ConsistencyCheckFailed", val |-> 0]
        ELSE [ok |-> TRUE, err |-> "", val |-> dm]

\* Pedersen::rand: n random generators
RECURSIVE RandVec(_, _, _)
RandVec(n, acc, rng) ==
    IF VLen(acc) >= n THEN [vec |-> acc, rng |-> rng]
    ELSE LET r == rand(rng)
         IN  RandVec(n, acc @@ (VLen(acc) :> r.val), r.rng)

Pedersen_rand(n, rng) == RandVec(n, EmptyVec, rng)

(***************************************************************************)
(* groth16/circuit.rs, groth16/server_aided.rs                             *)
(***************************************************************************)
\* v[from..to]
Slice(v, from, to) == Collect([i \in 0 .. (to - from - 1) |-> v[from + i]])

\* full_assignment = instance.clone(); full_assignment.extend_from_slice(&witness)
Concat(a, b) ==
    Collect([i \in 0 .. (VLen(a) + VLen(b) - 1) |->
                IF i < VLen(a) THEN a[i] ELSE b[i - VLen(a)]])

\* (mutant) a vector that is too short is returned as it is
pad_or_trim_no_pad(v, target_len) ==
    IF VLen(v) >= target_len THEN Slice(v, 0, target_len) ELSE v

\* pad_or_trim: exactly target_len entries, cut or filled with zeros
pad_or_trim(v, target_len) ==
    IF VLen(v) >= target_len THEN Slice(v, 0, target_len)
    ELSE Collect([i \in 0 .. (target_len - 1) |-> IF i < VLen(v) THEN v[i] ELSE 0])

\* CubeCircuit::generate_constraints: the assignment of x^3 + x + 5 = y, the
\* instance being (1, y) and the witness (x, x^2, x^3)
CubeCircuit(x) ==
    LET x2 == FMul(x, x)
        x3 == FMul(x2, x)
        y  == FAdd(FAdd(x3, x), 5 % FieldOrder)
    IN  [instance_assignment |-> (0 :> 1) @@ (1 :> y),
         witness_assignment  |-> (0 :> x) @@ (1 :> x2) @@ (2 :> x3)]

\* QAP::witness_map: the coefficients of the quotient polynomial, a function of
\* the assignment alone; len is the size of the evaluation domain less one
RECURSIVE WeightedSum(_, _)
WeightedSum(v, i) ==
    IF i >= VLen(v) THEN 0 ELSE FAdd(FMul((i + 1) % FieldOrder, v[i]), WeightedSum(v, i + 1))

witness_map(cs, len) ==
    LET full == Concat(cs.instance_assignment, cs.witness_assignment)
    IN  Collect([i \in 0 .. (len - 1) |-> FAdd(WeightedSum(full, 0), i % FieldOrder)])

\* Groth16::circuit_specific_setup: a proving key for a circuit with num_instance
\* instance variables, num_witness witness variables and h_len quotient
\* coefficients; its elements are drawn from the rng
circuit_specific_setup(num_instance, num_witness, h_len, rng) ==
    LET alpha == rand(rng)
        beta1 == rand(alpha.rng)
        beta2 == rand(beta1.rng)
        dlt1  == rand(beta2.rng)
        dlt2  == rand(dlt1.rng)
        gabc  == RandVec(num_instance, EmptyVec, dlt2.rng)
        aq    == RandVec(num_instance + num_witness, EmptyVec, gabc.rng)
        b1q   == RandVec(num_instance + num_witness, EmptyVec, aq.rng)
        b2q   == RandVec(num_instance + num_witness, EmptyVec, b1q.rng)
        hq    == RandVec(h_len, EmptyVec, b2q.rng)
        lq    == RandVec(num_witness, EmptyVec, hq.rng)
    IN  [pk |-> [vk |-> [alpha_g1 |-> alpha.val, beta_g2 |-> beta2.val,
                         delta_g2 |-> dlt2.val, gamma_abc_g1 |-> gabc.vec],
                 beta_g1 |-> beta1.val, delta_g1 |-> dlt1.val,
                 a_query |-> aq.vec, b_g1_query |-> b1q.vec, b_g2_query |-> b2q.vec,
                 h_query |-> hq.vec, l_query |-> lq.vec],
         rng |-> lq.rng]

\* ServerAidedProvingKey::setup: five EMSM instances on one rng, H and L over the
\* whole query, A, B1 and B2 over the witness part of theirs
ServerAidedProvingKey_setup(pk, rng) ==
    LET emsm_h    == EmsmPublicParams_new(pk.h_query, rng)
        emsm_l    == EmsmPublicParams_new(pk.l_query, emsm_h.rng)
        num_pub   == VLen(pk.vk.gamma_abc_g1)
        a_witness == Slice(pk.a_query, num_pub, VLen(pk.a_query))
        emsm_a    == EmsmPublicParams_new(a_witness, emsm_l.rng)
        b_g1_witness == Slice(pk.b_g1_query, num_pub, VLen(pk.b_g1_query))
        emsm_b_g1 == EmsmPublicParams_new(b_g1_witness, emsm_a.rng)
        b_g2_witness == Slice(pk.b_g2_query, num_pub, VLen(pk.b_g2_query))
        emsm_b_g2 == EmsmPublicParams_new(b_g2_witness, emsm_b_g1.rng)
    IN  [sapk |-> [pk |-> pk,
                   emsm_h |-> emsm_h.params, emsm_l |-> emsm_l.params,
                   emsm_a |-> emsm_a.params, emsm_b_g1 |-> emsm_b_g1.params,
                   emsm_b_g2 |-> emsm_b_g2.params,
                   pre_h |-> preprocess(emsm_h.params), pre_l |-> preprocess(emsm_l.params),
                   pre_a |-> preprocess(emsm_a.params),
                   pre_b_g1 |-> preprocess(emsm_b_g1.params),
                   pre_b_g2 |-> preprocess(emsm_b_g2.params)],
         rng |-> emsm_b_g2.rng]

\* The five queries of client_encrypt, one encrypt per slot in the order given,
\* each on the rng the one before it left
RECURSIVE encrypt_each(_, _, _)
encrypt_each(emsms, scalars, acc) ==
    IF Len(acc.masked) >= Len(emsms) THEN acc
    ELSE LET i == Len(acc.masked) + 1
             e == encrypt(emsms[i], scalars[i], acc.rng)
         IN  encrypt_each(emsms, scalars,
                 [masked |-> Append(acc.masked, e.masked),
                  lpn |-> Append(acc.lpn, e.lpn), rng |-> e.rng])

\* the EncryptedRequest and the ClientDecryptionState built from r, s, the
\* assignment and the five queries e
client_output(cs, r, s, e) ==
    [request |-> [v_h |-> e.masked[1], v_l |-> e.masked[2], v_a |-> e.masked[3],
                  v_b_g1 |-> e.masked[4], v_b_g2 |-> e.masked[5]],
     state |-> [r |-> r, s |-> s,
                lpn_h |-> e.lpn[1], lpn_l |-> e.lpn[2], lpn_a |-> e.lpn[3],
                lpn_b_g1 |-> e.lpn[4], lpn_b_g2 |-> e.lpn[5],
                num_instance_variables |-> VLen(cs.instance_assignment),
                full_assignment |-> Concat(cs.instance_assignment, cs.witness_assignment)],
     rng |-> e.rng]

\* client_encrypt: r and s, then the five queries in the order H, L, A, B1, B2 on
\* the same rng, each scalar vector cut or filled to the length of its generators
client_encrypt(sapk, cs, h_poly, rng) ==
    LET witness == cs.witness_assignment
        r == rand(rng)
        s == rand(r.rng)
    IN  client_output(cs, r.val, s.val,
            encrypt_each(
                <<sapk.emsm_h, sapk.emsm_l, sapk.emsm_a, sapk.emsm_b_g1, sapk.emsm_b_g2>>,
                <<pad_or_trim(h_poly, VLen(sapk.emsm_h.generators)),
                  pad_or_trim(witness, VLen(sapk.emsm_l.generators)),
                  pad_or_trim(witness, VLen(sapk.emsm_a.generators)),
                  pad_or_trim(witness, VLen(sapk.emsm_b_g1.generators)),
                  pad_or_trim(witness, VLen(sapk.emsm_b_g2.generators))>>,
                [masked |-> << >>, lpn |-> << >>, rng |-> s.rng]))

NoServerResponse == [em_h |-> 0, em_l |-> 0, em_a |-> 0, em_b_g1 |-> 0, em_b_g2 |-> 0]

\* server_evaluate: five MSMs on the masked vectors, `?` on the first that fails
server_evaluate(sapk, request) ==
    LET em_h    == server_computation(sapk.emsm_h, request.v_h)
        em_l    == server_computation(sapk.emsm_l, request.v_l)
        em_a    == server_computation(sapk.emsm_a, request.v_a)
        em_b_g1 == server_computation(sapk.emsm_b_g1, request.v_b_g1)
        em_b_g2 == server_computation(sapk.emsm_b_g2, request.v_b_g2)
        Fail(e) == [ok |-> FALSE, err |-> e.err, response |-> NoServerResponse]
    IN  IF ~em_h.ok THEN Fail(em_h)
        ELSE IF ~em_l.ok THEN Fail(em_l)
        ELSE IF ~em_a.ok THEN Fail(em_a)
        ELSE IF ~em_b_g1.ok THEN Fail(em_b_g1)
        ELSE IF ~em_b_g2.ok THEN Fail(em_b_g2)
        ELSE [ok |-> TRUE, err |-> "",
              response |-> [em_h |-> em_h.val, em_l |-> em_l.val, em_a |-> em_a.val,
                            em_b_g1 |-> em_b_g1.val, em_b_g2 |-> em_b_g2.val]]

\* client_decrypt's loops over public_inputs: acc += query[i + 1] * input for
\* every input that is not zero
RECURSIVE public_input_loop(_, _, _, _)
public_input_loop(query, public_inputs, i, acc) ==
    IF i >= VLen(public_inputs) THEN acc
    ELSE public_input_loop(query, public_inputs, i + 1,
             IF public_inputs[i] # 0 THEN GAdd(acc, GMul(query[i + 1], public_inputs[i]))
             ELSE acc)

\* (mutant) the last term of pi_C is added, not subtracted
client_decrypt_plus(sapk, response, state) ==
    LET h_msm            == decrypt(response.em_h, state.lpn_h, sapk.pre_h)
        l_msm            == decrypt(response.em_l, state.lpn_l, sapk.pre_l)
        a_witness_msm    == decrypt(response.em_a, state.lpn_a, sapk.pre_a)
        b_g1_witness_msm == decrypt(response.em_b_g1, state.lpn_b_g1, sapk.pre_b_g1)
        b_g2_witness_msm == decrypt(response.em_b_g2, state.lpn_b_g2, sapk.pre_b_g2)
        num_pub       == state.num_instance_variables
        public_inputs == Slice(state.full_assignment, 1, num_pub)
        a_pub    == GAdd(public_input_loop(sapk.pk.a_query, public_inputs, 0, 0),
                         sapk.pk.a_query[0])
        b_g1_pub == GAdd(public_input_loop(sapk.pk.b_g1_query, public_inputs, 0, 0),
                         sapk.pk.b_g1_query[0])
        b_g2_pub == GAdd(public_input_loop(sapk.pk.b_g2_query, public_inputs, 0, 0),
                         sapk.pk.b_g2_query[0])
        alpha    == sapk.pk.vk.alpha_g1
        delta_g1 == sapk.pk.delta_g1
        g_a      == GAdd(GAdd(GAdd(alpha, a_pub), a_witness_msm), GMul(delta_g1, state.r))
        beta_g2  == sapk.pk.vk.beta_g2
        delta_g2 == sapk.pk.vk.delta_g2
        g_b      == GAdd(GAdd(GAdd(beta_g2, b_g2_pub), b_g2_witness_msm), GMul(delta_g2, state.s))
        beta_g1  == sapk.pk.beta_g1
        g_b_g1   == GAdd(GAdd(GAdd(beta_g1, b_g1_pub), b_g1_witness_msm),
                         GMul(delta_g1, state.s))
        g_c      == GAdd(GAdd(GAdd(GAdd(h_msm, l_msm), GMul(g_a, state.s)),
                              GMul(g_b_g1, state.r)),
                         GMul(delta_g1, FMul(state.r, state.s)))
    IN  [a |-> g_a, b |-> g_b, c |-> g_c]

\* client_decrypt: the five MSMs unmasked, the public-input parts computed
\* locally, and the proof assembled
client_decrypt(sapk, response, state) ==
    LET h_msm            == decrypt(response.em_h, state.lpn_h, sapk.pre_h)
        l_msm            == decrypt(response.em_l, state.lpn_l, sapk.pre_l)
        a_witness_msm    == decrypt(response.em_a, state.lpn_a, sapk.pre_a)
        b_g1_witness_msm == decrypt(response.em_b_g1, state.lpn_b_g1, sapk.pre_b_g1)
        b_g2_witness_msm == decrypt(response.em_b_g2, state.lpn_b_g2, sapk.pre_b_g2)
        num_pub       == state.num_instance_variables
        public_inputs == Slice(state.full_assignment, 1, num_pub)
        a_pub    == GAdd(public_input_loop(sapk.pk.a_query, public_inputs, 0, 0),
                         sapk.pk.a_query[0])
        b_g1_pub == GAdd(public_input_loop(sapk.pk.b_g1_query, public_inputs, 0, 0),
                         sapk.pk.b_g1_query[0])
        b_g2_pub == GAdd(public_input_loop(sapk.pk.b_g2_query, public_inputs, 0, 0),
                         sapk.pk.b_g2_query[0])
        alpha    == sapk.pk.vk.alpha_g1
        delta_g1 == sapk.pk.delta_g1
        g_a      == GAdd(GAdd(GAdd(alpha, a_pub), a_witness_msm), GMul(delta_g1, state.r))
        beta_g2  == sapk.pk.vk.beta_g2
        delta_g2 == sapk.pk.vk.delta_g2
        g_b      == GAdd(GAdd(GAdd(beta_g2, b_g2_pub), b_g2_witness_msm), GMul(delta_g2, state.s))
        beta_g1  == sapk.pk.beta_g1
        g_b_g1   == GAdd(GAdd(GAdd(beta_g1, b_g1_pub), b_g1_witness_msm),
                         GMul(delta_g1, state.s))
        g_c      == GSub(GAdd(GAdd(GAdd(h_msm, l_msm), GMul(g_a, state.s)),
                              GMul(g_b_g1, state.r)),
                         GMul(delta_g1, FMul(state.r, state.s)))
    IN  [a |-> g_a, b |-> g_b, c |-> g_c]

\* The double queries of malicious_client_encrypt, one malicious_encrypt per slot
\* in the order given, each on the rng the one before it left
RECURSIVE malicious_encrypt_each(_, _, _)
malicious_encrypt_each(emsms, scalars, acc) ==
    IF Len(acc.encrypted) >= Len(emsms) THEN acc
    ELSE LET i == Len(acc.encrypted) + 1
             e == malicious_encrypt(emsms[i], scalars[i], acc.rng)
         IN  malicious_encrypt_each(emsms, scalars,
                 [encrypted |-> Append(acc.encrypted, e.encrypted),
                  state |-> Append(acc.state, e.state), rng |-> e.rng])

\* the MaliciousEncryptedRequest and the MaliciousClientState built from r, s, the
\* assignment and the five double queries e
malicious_client_output(cs, r, s, e) ==
    [request |-> [h |-> e.encrypted[1], l |-> e.encrypted[2], a |-> e.encrypted[3],
                  b_g1 |-> e.encrypted[4], b_g2 |-> e.encrypted[5]],
     state |-> [r |-> r, s |-> s,
                ds_h |-> e.state[1], ds_l |-> e.state[2], ds_a |-> e.state[3],
                ds_b_g1 |-> e.state[4], ds_b_g2 |-> e.state[5],
                num_instance_variables |-> VLen(cs.instance_assignment),
                full_assignment |-> Concat(cs.instance_assignment, cs.witness_assignment)],
     rng |-> e.rng]

\* malicious_client_encrypt: r and s, then the five double queries in the order
\* H, L, A, B1, B2 on the same rng
malicious_client_encrypt(sapk, cs, h_poly, rng) ==
    LET witness_assignment == cs.witness_assignment
        r == rand(rng)
        s == rand(r.rng)
    IN  malicious_client_output(cs, r.val, s.val,
            malicious_encrypt_each(
                <<sapk.emsm_h, sapk.emsm_l, sapk.emsm_a, sapk.emsm_b_g1, sapk.emsm_b_g2>>,
                <<pad_or_trim(h_poly, VLen(sapk.emsm_h.generators)),
                  pad_or_trim(witness_assignment, VLen(sapk.emsm_l.generators)),
                  pad_or_trim(witness_assignment, VLen(sapk.emsm_a.generators)),
                  pad_or_trim(witness_assignment, VLen(sapk.emsm_b_g1.generators)),
                  pad_or_trim(witness_assignment, VLen(sapk.emsm_b_g2.generators))>>,
                [encrypted |-> << >>, state |-> << >>, rng |-> s.rng]))

NoResponse == [em_h |-> 0, em_h_ck |-> 0, em_l |-> 0, em_l_ck |-> 0, em_a |-> 0, em_a_ck |-> 0,
               em_b_g1 |-> 0, em_b_g1_ck |-> 0, em_b_g2 |-> 0, em_b_g2_ck |-> 0]

\* malicious_server_evaluate_groth16: ten MSMs, `?` on the first that fails
malicious_server_evaluate_groth16(sapk, request) ==
    LET h    == malicious_server_evaluate(sapk.emsm_h, request.h)
        l    == malicious_server_evaluate(sapk.emsm_l, request.l)
        a    == malicious_server_evaluate(sapk.emsm_a, request.a)
        b_g1 == malicious_server_evaluate(sapk.emsm_b_g1, request.b_g1)
        b_g2 == malicious_server_evaluate(sapk.emsm_b_g2, request.b_g2)
        Fail(e) == [ok |-> FALSE, err |-> e.err, response |-> NoResponse]
    IN  IF ~h.ok THEN Fail(h)
        ELSE IF ~l.ok THEN Fail(l)
        ELSE IF ~a.ok THEN Fail(a)
        ELSE IF ~b_g1.ok THEN Fail(b_g1)
        ELSE IF ~b_g2.ok THEN Fail(b_g2)
        ELSE [ok |-> TRUE, err |-> "",
              response |-> [em_h |-> h.em, em_h_ck |-> h.em_ck, em_l |-> l.em, em_l_ck |-> l.em_ck,
                            em_a |-> a.em, em_a_ck |-> a.em_ck,
                            em_b_g1 |-> b_g1.em, em_b_g1_ck |-> b_g1.em_ck,
                            em_b_g2 |-> b_g2.em, em_b_g2_ck |-> b_g2.em_ck]]

\* the loop over public_inputs: query[i + 1] * input, skipping zero inputs
RECURSIVE PublicSum(_, _, _)
PublicSum(query, public_inputs, i) ==
    IF i >= VLen(public_inputs) THEN 0
    ELSE GAdd(IF public_inputs[i] # 0 THEN GMul(query[i + 1], public_inputs[i]) ELSE 0,
              PublicSum(query, public_inputs, i + 1))

NoProof == [a |-> 0, b |-> 0, c |-> 0]

\* (mutant) r and s change places in the two products of pi_C
assemble_proof_r_for_s(sapk, state, h_msm, l_msm, a_witness_msm, b_g1_witness_msm, b_g2_witness_msm) ==
    LET num_pub == state.num_instance_variables
        public_inputs == Slice(state.full_assignment, 1, num_pub)
        a_pub    == GAdd(PublicSum(sapk.pk.a_query, public_inputs, 0), sapk.pk.a_query[0])
        b_g1_pub == GAdd(PublicSum(sapk.pk.b_g1_query, public_inputs, 0), sapk.pk.b_g1_query[0])
        b_g2_pub == GAdd(PublicSum(sapk.pk.b_g2_query, public_inputs, 0), sapk.pk.b_g2_query[0])
        delta_g1 == sapk.pk.delta_g1
        g_a == GAdd(GAdd(GAdd(sapk.pk.vk.alpha_g1, a_pub), a_witness_msm), GMul(delta_g1, state.r))
        g_b == GAdd(GAdd(GAdd(sapk.pk.vk.beta_g2, b_g2_pub), b_g2_witness_msm),
                    GMul(sapk.pk.vk.delta_g2, state.s))
        g_b_g1 == GAdd(GAdd(GAdd(sapk.pk.beta_g1, b_g1_pub), b_g1_witness_msm),
                       GMul(delta_g1, state.s))
        g_c == GSub(GAdd(GAdd(GAdd(h_msm, l_msm), GMul(g_a, state.r)), GMul(g_b_g1, state.s)),
                    GMul(delta_g1, FMul(state.r, state.s)))
    IN  [a |-> g_a, b |-> g_b, c |-> g_c]

\* the proof assembled from the five decrypted MSMs
assemble_proof(sapk, state, h_msm, l_msm, a_witness_msm, b_g1_witness_msm, b_g2_witness_msm) ==
    LET num_pub == state.num_instance_variables
        public_inputs == Slice(state.full_assignment, 1, num_pub)
        a_pub    == GAdd(PublicSum(sapk.pk.a_query, public_inputs, 0), sapk.pk.a_query[0])
        b_g1_pub == GAdd(PublicSum(sapk.pk.b_g1_query, public_inputs, 0), sapk.pk.b_g1_query[0])
        b_g2_pub == GAdd(PublicSum(sapk.pk.b_g2_query, public_inputs, 0), sapk.pk.b_g2_query[0])
        delta_g1 == sapk.pk.delta_g1
        g_a == GAdd(GAdd(GAdd(sapk.pk.vk.alpha_g1, a_pub), a_witness_msm), GMul(delta_g1, state.r))
        g_b == GAdd(GAdd(GAdd(sapk.pk.vk.beta_g2, b_g2_pub), b_g2_witness_msm),
                    GMul(sapk.pk.vk.delta_g2, state.s))
        g_b_g1 == GAdd(GAdd(GAdd(sapk.pk.beta_g1, b_g1_pub), b_g1_witness_msm),
                       GMul(delta_g1, state.s))
        g_c == GSub(GAdd(GAdd(GAdd(h_msm, l_msm), GMul(g_a, state.s)), GMul(g_b_g1, state.r)),
                    GMul(delta_g1, FMul(state.r, state.s)))
    IN  [a |-> g_a, b |-> g_b, c |-> g_c]

\* (mutant) the result of the B2 check is not propagated: its MSM is taken unchecked
malicious_client_decrypt_b_g2_unchecked(sapk, response, state) ==
    LET h    == malicious_decrypt(response.em_h, response.em_h_ck, state.ds_h, sapk.pre_h)
        l    == malicious_decrypt(response.em_l, response.em_l_ck, state.ds_l, sapk.pre_l)
        a    == malicious_decrypt(response.em_a, response.em_a_ck, state.ds_a, sapk.pre_a)
        b_g1 == malicious_decrypt(response.em_b_g1, response.em_b_g1_ck, state.ds_b_g1,
                                  sapk.pre_b_g1)
        b_g2 == decrypt(response.em_b_g2, state.ds_b_g2.lpn, sapk.pre_b_g2)
        Fail(e) == [ok |-> FALSE, err |-> e.err, proof |-> NoProof]
    IN  IF ~h.ok THEN Fail(h)
        ELSE IF ~l.ok THEN Fail(l)
        ELSE IF ~a.ok THEN Fail(a)
        ELSE IF ~b_g1.ok THEN Fail(b_g1)
        ELSE [ok |-> TRUE, err |-> "",
              proof |-> assemble_proof(sapk, state, h.val, l.val, a.val, b_g1.val, b_g2)]

\* malicious_client_decrypt: the five checks in the order H, L, A, B1, B2, `?` on
\* the first that fails, and only then the assembly
malicious_client_decrypt(sapk, response, state) ==
    LET h    == malicious_decrypt(response.em_h, response.em_h_ck, state.ds_h, sapk.pre_h)
        l    == malicious_decrypt(response.em_l, response.em_l_ck, state.ds_l, sapk.pre_l)
        a    == malicious_decrypt(response.em_a, response.em_a_ck, state.ds_a, sapk.pre_a)
        b_g1 == malicious_decrypt(response.em_b_g1, response.em_b_g1_ck, state.ds_b_g1,
                                  sapk.pre_b_g1)
        b_g2 == malicious_decrypt(response.em_b_g2, response.em_b_g2_ck, state.ds_b_g2,
                                  sapk.pre_b_g2)
        Fail(e) == [ok |-> FALSE, err |-> e.err, proof |-> NoProof]
    IN  IF ~h.ok THEN Fail(h)
        ELSE IF ~l.ok THEN Fail(l)
        ELSE IF ~a.ok THEN Fail(a)
        ELSE IF ~b_g1.ok THEN Fail(b_g1)
        ELSE IF ~b_g2.ok THEN Fail(b_g2)
        ELSE [ok |-> TRUE, err |-> "",
              proof |-> assemble_proof(sapk, state, h.val, l.val, a.val, b_g1.val, b_g2.val)]

(***************************************************************************)
(* protocol/messages.rs.  A serialized vector is a sequence of words: the  *)
(* u64 length prefix, then one word per element.  The word of a field or   *)
(* group element is its canonical code, a number below FieldOrder; a word  *)
(* at or above FieldOrder decodes to no element.                           *)
(***************************************************************************)
MAX_VEC_LEN == 16777216

\* ark_to_bytes: one element
ark_to_bytes(val) == <<val>>

\* ark_from_bytes: one element; a short or non-canonical input is an error
ark_from_bytes(bytes) ==
    IF Len(bytes) = 0 \/ bytes[1] >= FieldOrder THEN [ok |-> FALSE, val |-> 0]
    ELSE [ok |-> TRUE, val |-> bytes[1]]

\* (mutant) the elements are written last to first
ark_vec_to_bytes_reversed(vals) ==
    <<VLen(vals)>> \o [i \in 1 .. VLen(vals) |-> vals[VLen(vals) - i]]

\* ark_vec_to_bytes: the length, then the elements in order
ark_vec_to_bytes(vals) == <<VLen(vals)>> \o [i \in 1 .. VLen(vals) |-> vals[i - 1]]

\* the loop of ark_vec_from_bytes: element i is read from the cursor; read is
\* the number of elements deserialized when the loop ends
RECURSIVE ReadElements(_, _, _, _)
ReadElements(bytes, len, i, vals) ==
    IF i >= len THEN [ok |-> TRUE, err |-> "", vals |-> vals, read |-> i]
    ELSE IF Len(bytes) < i + 2 \/ bytes[i + 2] >= FieldOrder
         THEN [ok |-> FALSE, err |-> "failed to deserialize element", vals |-> EmptyVec,
               read |-> i]
         ELSE ReadElements(bytes, len, i + 1, vals @@ (i :> bytes[i + 2]))

\* (mutant) a length of exactly MAX_VEC_LEN is refused too
vec_len_exceeds_at_limit(len) == len >= MAX_VEC_LEN

\* if len > MAX_VEC_LEN { bail!("vec length {len} exceeds maximum {MAX_VEC_LEN}") }
vec_len_exceeds(len) == len > MAX_VEC_LEN

\* ark_vec_from_bytes: the length prefix is read and bounded, then len elements;
\* what follows them in the input is not looked at
ark_vec_from_bytes(bytes) ==
    IF Len(bytes) = 0
    THEN [ok |-> FALSE, err |-> "failed to read vec length", vals |-> EmptyVec, read |-> 0]
    ELSE IF vec_len_exceeds(bytes[1])
    THEN [ok |-> FALSE, err |-> "exceeds maximum", vals |-> EmptyVec, read |-> 0]
    ELSE ReadElements(bytes, bytes[1], 0, EmptyVec)

\* A vector of len copies of elem (vec![elem; len]) held as the pair, for lengths
\* no vector is built at.
Repeat(elem, len) == [elem |-> elem, len |-> len]

\* ark_vec_from_bytes(&ark_vec_to_bytes(&vec![elem; len])) on the pair: the
\* prefix written is len; it is read back and bounded; then the len elements
\* written, each of them elem, are read back
round_trip_repeat(elem, len) ==
    IF vec_len_exceeds(len)
    THEN [ok |-> FALSE, err |-> "exceeds maximum", vals |-> Repeat(elem, 0), read |-> 0]
    ELSE [ok |-> TRUE, err |-> "", vals |-> Repeat(elem, len), read |-> len]

(***************************************************************************)
(* protocol/server.rs.  A body is the bincode of an envelope: the session  *)
(* id and the bincode of the request, which is five serialized vectors.    *)
(* bincode::deserialize fails on an input that ends early and ignores      *)
(* what follows the value it read.                                         *)
(***************************************************************************)
\* bincode::deserialize::<SetupEnvelope / ProveEnvelope>(&body)
deserialize_envelope(body) ==
    IF Len(body) < 2 THEN [ok |-> FALSE, session_id |-> "", request |-> << >>]
    ELSE [ok |-> TRUE, session_id |-> body[1], request |-> body[2]]

\* bincode::deserialize::<SetupRequest / ProveRequest>(&envelope.request)
deserialize_request(bytes) ==
    IF Len(bytes) < 5 THEN [ok |-> FALSE, h |-> << >>, l |-> << >>, a |-> << >>,
                            b_g1 |-> << >>, b_g2 |-> << >>]
    ELSE [ok |-> TRUE, h |-> bytes[1], l |-> bytes[2], a |-> bytes[3],
          b_g1 |-> bytes[4], b_g2 |-> bytes[5]]

OK == 200
BAD_REQUEST == 400
PRECONDITION_FAILED == 412

NoSession == [h_generators |-> EmptyVec, l_generators |-> EmptyVec, a_generators |-> EmptyVec,
              b_g1_generators |-> EmptyVec, b_g2_generators |-> EmptyVec]

\* handle_setup up to the lock: the envelope, the request and the five vectors of
\* generators are deserialized, in this order; the first failure is a 400
handle_setup_parse(body) ==
    LET Bad == [status |-> BAD_REQUEST, session_id |-> "", session |-> NoSession] IN
    IF ~deserialize_envelope(body).ok THEN Bad
    ELSE IF ~deserialize_request(deserialize_envelope(body).request).ok THEN Bad
    ELSE IF ~ark_vec_from_bytes(deserialize_request(body[2]).h).ok THEN Bad
    ELSE IF ~ark_vec_from_bytes(deserialize_request(body[2]).l).ok THEN Bad
    ELSE IF ~ark_vec_from_bytes(deserialize_request(body[2]).a).ok THEN Bad
    ELSE IF ~ark_vec_from_bytes(deserialize_request(body[2]).b_g1).ok THEN Bad
    ELSE IF ~ark_vec_from_bytes(deserialize_request(body[2]).b_g2).ok THEN Bad
    ELSE [status |-> OK, session_id |-> body[1],
          session |-> [h_generators    |-> ark_vec_from_bytes(body[2][1]).vals,
                       l_generators    |-> ark_vec_from_bytes(body[2][2]).vals,
                       a_generators    |-> ark_vec_from_bytes(body[2][3]).vals,
                       b_g1_generators |-> ark_vec_from_bytes(body[2][4]).vals,
                       b_g2_generators |-> ark_vec_from_bytes(body[2][5]).vals]]

\* HashMap::new
HashMap_new == [k \in {} |-> NoSession]

\* (mutant) the map is replaced by one holding the new entry alone
HashMap_insert_alone(map, key, value) == [k \in {key} |-> value]

\* (mutant) an entry already present is kept (entry().or_insert)
HashMap_insert_if_absent(map, key, value) ==
    [k \in DOMAIN map \cup {key} |-> IF k \in DOMAIN map THEN map[k] ELSE value]

\* HashMap::insert: the entry under key is created or replaced
HashMap_insert(map, key, value) ==
    [k \in DOMAIN map \cup {key} |-> IF k = key THEN value ELSE map[k]]

\* (mutant) a missing session is read as an empty one (unwrap_or_default)
HashMap_get_or_default(map, key) ==
    IF key \in DOMAIN map THEN [found |-> TRUE, value |-> map[key]]
    ELSE [found |-> TRUE, value |-> NoSession]

\* (mutant) the key is not compared: any stored session answers
HashMap_get_any(map, key) ==
    IF DOMAIN map = {} THEN [found |-> FALSE, value |-> NoSession]
    ELSE [found |-> TRUE,
          value |-> map[CHOOSE k \in DOMAIN map : \A j \in DOMAIN map : k # key \/ j = key]]

\* HashMap::get
HashMap_get(map, key) ==
    IF key \in DOMAIN map THEN [found |-> TRUE, value |-> map[key]]
    ELSE [found |-> FALSE, value |-> NoSession]

\* (mutant) the five masked vectors are deserialized before the session is looked up
handle_prove_parse_vectors_first(body) ==
    IF ~deserialize_envelope(body).ok
    THEN [status |-> BAD_REQUEST, session_id |-> "", request |-> deserialize_request(<< >>)]
    ELSE IF ~deserialize_request(body[2]).ok
    THEN [status |-> BAD_REQUEST, session_id |-> "", request |-> deserialize_request(<< >>)]
    ELSE IF \E j \in 1 .. 5 : ~ark_vec_from_bytes(body[2][j]).ok
    THEN [status |-> BAD_REQUEST, session_id |-> "", request |-> deserialize_request(<< >>)]
    ELSE [status |-> OK, session_id |-> body[1], request |-> deserialize_request(body[2])]

\* handle_prove up to the lock: the envelope and the request are deserialized
handle_prove_parse(body) ==
    IF ~deserialize_envelope(body).ok
    THEN [status |-> BAD_REQUEST, session_id |-> "", request |-> deserialize_request(<< >>)]
    ELSE IF ~deserialize_request(body[2]).ok
    THEN [status |-> BAD_REQUEST, session_id |-> "", request |-> deserialize_request(<< >>)]
    ELSE [status |-> OK, session_id |-> body[1], request |-> deserialize_request(body[2])]

NoProveResponse == << >>

\* ProveResponse { em_h: ark_to_bytes(..), .. } and its bincode
serialize_response(em_h, em_l, em_a, em_b_g1, em_b_g2) ==
    <<ark_to_bytes(em_h), ark_to_bytes(em_l), ark_to_bytes(em_a),
      ark_to_bytes(em_b_g1), ark_to_bytes(em_b_g2)>>

\* the five MSMs of handle_prove, in the order h, l, a, b_g1, b_g2; the first
\* that fails is a 400
handle_prove_msms(session, v_h, v_l, v_a, v_b_g1, v_b_g2) ==
    LET Bad == [status |-> BAD_REQUEST, response |-> NoProveResponse] IN
    IF ~commit(session.h_generators, v_h).ok THEN Bad
    ELSE IF ~commit(session.l_generators, v_l).ok THEN Bad
    ELSE IF ~commit(session.a_generators, v_a).ok THEN Bad
    ELSE IF ~commit(session.b_g1_generators, v_b_g1).ok THEN Bad
    ELSE IF ~commit(session.b_g2_generators, v_b_g2).ok THEN Bad
    ELSE [status |-> OK,
          response |-> serialize_response(commit(session.h_generators, v_h).val,
                                          commit(session.l_generators, v_l).val,
                                          commit(session.a_generators, v_a).val,
                                          commit(session.b_g1_generators, v_b_g1).val,
                                          commit(session.b_g2_generators, v_b_g2).val)]

\* handle_prove under the read lock, the session found: the five masked vectors
\* are deserialized in the order h, l, a, b_g1, b_g2, the first failure being a
\* 400, and then the MSMs are computed
handle_prove_session(session, request) ==
    IF \/ ~ark_vec_from_bytes(request.h).ok
       \/ ~ark_vec_from_bytes(request.l).ok
       \/ ~ark_vec_from_bytes(request.a).ok
       \/ ~ark_vec_from_bytes(request.b_g1).ok
       \/ ~ark_vec_from_bytes(request.b_g2).ok
    THEN [status |-> BAD_REQUEST, response |-> NoProveResponse]
    ELSE handle_prove_msms(session,
             ark_vec_from_bytes(request.h).vals, ark_vec_from_bytes(request.l).vals,
             ark_vec_from_bytes(request.a).vals, ark_vec_from_bytes(request.b_g1).vals,
             ark_vec_from_bytes(request.b_g2).vals)

(***************************************************************************)
(* protocol/client.rs.  What comes back from a POST: whether the request   *)
(* got an answer at all (send().await), the status of the answer, and      *)
(* whether its body is the bincode of a ProveResponse.                     *)
(***************************************************************************)
\* StatusCode::is_success: 200..=299
is_success(status) == status >= 200 /\ status <= 299

\* (mutant) the status of the answer to /setup is not looked at
send_setup_any_status(answer) ==
    IF ~answer.arrived THEN [ok |-> FALSE, err |-> "send"]
    ELSE [ok |-> TRUE, err |-> ""]

\* EmsmClient::send_setup, from the answer on
send_setup(answer) ==
    IF ~answer.arrived THEN [ok |-> FALSE, err |-> "send"]
    ELSE IF ~is_success(answer.status) THEN [ok |-> FALSE, err |-> "Setup failed with status"]
    ELSE [ok |-> TRUE, err |-> ""]

\* EmsmClient::send_prove, from the answer on
send_prove(answer) ==
    IF ~answer.arrived THEN [ok |-> FALSE, err |-> "send"]
    ELSE IF ~is_success(answer.status) THEN [ok |-> FALSE, err |-> "Prove failed with status"]
    ELSE IF ~answer.body_ok THEN [ok |-> FALSE, err |-> "deserialize"]
    ELSE [ok |-> TRUE, err |-> ""]

(***************************************************************************)
(* The state of one EMSM instance and of one request against it, as the    *)
(* client (params, pre, witness, dstate, result), the wire (enc, resp) and *)
(* the server's deviation from the honest MSMs (delta, delta_ck) hold it.  *)
(***************************************************************************)
VARIABLES
    stage,      \* how far the pipeline has run
    params,     \* EmsmPublicParams
    pre,        \* PreprocessedCommitments.h
    witness,    \* the vector z handed to encrypt
    enc,        \* the masked vectors sent to the server
    dstate,     \* the decryption state kept by the client
    resp,       \* the server's responses
    delta,      \* what the server added to its two honest MSMs
    result      \* what decrypt returned

emsmVars == <<stage, params, pre, witness, enc, dstate, resp, delta, result>>

(***************************************************************************)
(* The state of one server-aided Groth16 proof in malicious mode: the rng  *)
(* the client threads through setup and encrypt, the wrapped proving key,  *)
(* the client's state between encrypt and decrypt, the request and the     *)
(* response on the wire, and what was added to the response on its way.    *)
(***************************************************************************)
VARIABLES
    g16_stage,      \* how far the proof has run
    g16_rng,        \* the client's rng
    g16_key,        \* ServerAidedProvingKey
    g16_state,      \* MaliciousClientState, or ClientDecryptionState
    g16_request,    \* MaliciousEncryptedRequest, or EncryptedRequest
    g16_response,   \* MaliciousServerResponse, or ServerResponse
    g16_delta,      \* per slot, what the server added to its two honest MSMs
    g16_result      \* what malicious_client_decrypt, or client_decrypt, returned

g16Vars == <<g16_stage, g16_rng, g16_key, g16_state, g16_request, g16_response,
             g16_delta, g16_result>>

(***************************************************************************)
(* The state of the session server: the session map behind its RwLock, the *)
(* requests being handled, and what has happened so far.                   *)
(***************************************************************************)
VARIABLES
    sessions,       \* ServerState.sessions
    lock,           \* the RwLock: the handler holding it for writing, those reading
    tasks,          \* per handler, the request it is handling and how far it is
    nreq,           \* how many requests have arrived
    ins_log,        \* per session id, the sessions inserted under it, in order
    returned,       \* per session id, the latest insert whose setup has returned 200
    seen412         \* whether a prove has been rejected with 412

serverVars == <<sessions, lock, tasks, nreq, ins_log, returned, seen412>>

(***************************************************************************)
(* The state of one run of the client binary: where main is, its session   *)
(* id, the requests it has posted, what send_setup and send_prove          *)
(* returned, and how main ended.                                           *)
(***************************************************************************)
VARIABLES
    cl_pc,          \* the step of main that runs next
    cl_session_id,  \* session_id
    cl_posted,      \* the requests posted so far, in order
    cl_setup,       \* what send_setup returned, with the status it saw
    cl_prove,       \* what send_prove returned, with the status it saw
    cl_exit         \* what main returned

clientVars == <<cl_pc, cl_session_id, cl_posted, cl_setup, cl_prove, cl_exit>>

(***************************************************************************)
(* The state of one use of the vector codec: what went in (a vector, or a  *)
(* byte string from the network) and what ark_vec_from_bytes returned.     *)
(***************************************************************************)
VARIABLES
    wire_pc,        \* "start", then "done"
    wire_in,        \* the vector serialized, if any, and the bytes deserialized
    wire_out        \* what ark_vec_from_bytes returned

wireVars == <<wire_pc, wire_in, wire_out>>

(***************************************************************************)
(* The calls of get_lpn_params made so far, each with its argument and     *)
(* what it returned.                                                       *)
(***************************************************************************)
VARIABLES
    lpn_calls

paramVars == <<lpn_calls>>

(***************************************************************************)
(* One TOperator and one use of it on a sparse vector and on a vector of   *)
(* group elements.                                                         *)
(***************************************************************************)
VARIABLES
    raa_pc,         \* "start", then "rand", or "operator" and "done" or "sparse"
    raa_op,         \* the TOperator
    raa_e,          \* the entries of the sparse vector e
    raa_g,          \* the vector g of group elements
    raa_te,         \* multiply_sparse(e)
    raa_ttg         \* multiply_transpose_group(g)

raaVars == <<raa_pc, raa_op, raa_e, raa_g, raa_te, raa_ttg>>

(***************************************************************************)
(* The calls of SparseVector::error_vec made so far, each with its         *)
(* arguments, the state its rng was in, and what it returned.              *)
(***************************************************************************)
VARIABLES
    sparse_calls

sparseVars == <<sparse_calls>>

(***************************************************************************)
(* The calls of accumulate_inplace on long vectors made so far, each with  *)
(* the vector, the number of threads of the pool it ran in, and how it     *)
(* ended.                                                                  *)
(***************************************************************************)
VARIABLES
    acc_calls

accVars == <<acc_calls>>

(***************************************************************************)
(* The calls of pad_or_trim made so far, each with its arguments and what  *)
(* it returned.                                                            *)
(***************************************************************************)
VARIABLES
    pad_calls

padVars == <<pad_calls>>

vars == <<emsmVars, g16Vars, serverVars, clientVars, wireVars, paramVars, raaVars,
          sparseVars, accVars, padVars>>

NoLpn == [noise |-> [size |-> 0, entries |-> << >>], lpn_vector |-> EmptyVec]
NoParams == [t_operator |-> [perm_p |-> EmptyVec, perm_q |-> EmptyVec,
                             inv_perm_p |-> EmptyVec, inv_perm_q |-> EmptyVec,
                             big_n |-> 0, n |-> 0],
             generators |-> EmptyVec, t |-> 0]
NoEnc == [masked |-> EmptyVec, masked_check |-> EmptyVec]
NoDState == [challenge |-> 0, lpn |-> NoLpn, lpn_check |-> NoLpn]
NoResp == [ok |-> TRUE, err |-> "", em |-> 0, em_ck |-> 0]
NoDelta == [em |-> 0, em_ck |-> 0]
NoResult == [ok |-> TRUE, err |-> "", val |-> 0]

InitEmsm ==
    /\ stage = "start"
    /\ params = NoParams
    /\ pre = EmptyVec
    /\ witness = EmptyVec
    /\ enc = NoEnc
    /\ dstate = NoDState
    /\ resp = NoResp
    /\ delta = NoDelta
    /\ result = NoResult

Slots == {"h", "l", "a", "b_g1", "b_g2"}
NoTamper == [x \in Slots |-> NoDelta]
NoKey == [pk |-> [vk |-> [alpha_g1 |-> 0, beta_g2 |-> 0, delta_g2 |-> 0,
                          gamma_abc_g1 |-> EmptyVec],
                  beta_g1 |-> 0, delta_g1 |-> 0,
                  a_query |-> EmptyVec, b_g1_query |-> EmptyVec, b_g2_query |-> EmptyVec,
                  h_query |-> EmptyVec, l_query |-> EmptyVec],
          emsm_h |-> NoParams, emsm_l |-> NoParams, emsm_a |-> NoParams,
          emsm_b_g1 |-> NoParams, emsm_b_g2 |-> NoParams,
          pre_h |-> EmptyVec, pre_l |-> EmptyVec, pre_a |-> EmptyVec,
          pre_b_g1 |-> EmptyVec, pre_b_g2 |-> EmptyVec]
NoClientState == [r |-> 0, s |-> 0, ds_h |-> NoDState, ds_l |-> NoDState, ds_a |-> NoDState,
                  ds_b_g1 |-> NoDState, ds_b_g2 |-> NoDState,
                  num_instance_variables |-> 0, full_assignment |-> EmptyVec]
NoRequest == [h |-> NoEnc, l |-> NoEnc, a |-> NoEnc, b_g1 |-> NoEnc, b_g2 |-> NoEnc]
NoG16Result == [ok |-> TRUE, err |-> "", proof |-> NoProof]

InitG16 ==
    /\ g16_stage = "start"
    /\ g16_rng = 0
    /\ g16_key = NoKey
    /\ g16_state = NoClientState
    /\ g16_request = NoRequest
    /\ g16_response = NoResponse
    /\ g16_delta = NoTamper
    /\ g16_result = NoG16Result

\* The session ids clients use, and the handlers the runtime runs side by side.
SessionIds == {"A", "B"}
Handlers == {1, 2}

NoRequestBytes == deserialize_request(<< >>)
IdleTask == [pc |-> "idle", kind |-> "none", body |-> << >>, session_id |-> "",
             request |-> NoRequestBytes, session |-> NoSession,
             status |-> 0, response |-> NoProveResponse,
             start_ret |-> 0, used |-> 0, prior_412 |-> FALSE]

InitServer ==
    /\ sessions = HashMap_new
    /\ lock = [writer |-> 0, readers |-> {}]
    /\ tasks = [t \in Handlers |-> IdleTask]
    /\ nreq = 0
    /\ ins_log = [sid \in SessionIds |-> << >>]
    /\ returned = [sid \in SessionIds |-> 0]
    /\ seen412 = FALSE

NoAnswer == [called |-> FALSE, ok |-> FALSE, err |-> "", arrived |-> FALSE, status |-> 0]

InitClient ==
    /\ cl_pc = "start"
    /\ cl_session_id = ""
    /\ cl_posted = << >>
    /\ cl_setup = NoAnswer
    /\ cl_prove = NoAnswer
    /\ cl_exit = ""

NoWireIn == [kind |-> "none", vec |-> EmptyVec, bytes |-> << >>]
NoWireOut == [ok |-> FALSE, err |-> "", vals |-> EmptyVec, read |-> 0]

InitWire ==
    /\ wire_pc = "start"
    /\ wire_in = NoWireIn
    /\ wire_out = NoWireOut

InitParams == lpn_calls = << >>

InitRaa ==
    /\ raa_pc = "start"
    /\ raa_op = TOperator_of(0, EmptyVec, EmptyVec)
    /\ raa_e = << >>
    /\ raa_g = EmptyVec
    /\ raa_te = EmptyVec
    /\ raa_ttg = EmptyVec

InitSparse == sparse_calls = << >>

InitAccumulate == acc_calls = << >>

InitPad == pad_calls = << >>

Init ==
    /\ InitEmsm /\ InitG16 /\ InitServer /\ InitClient /\ InitWire /\ InitParams /\ InitRaa
    /\ InitSparse
    /\ InitAccumulate
    /\ InitPad

\* EmsmPublicParams::new over generators the caller supplies
New(generators, seed) ==
    /\ stage = "start"
    /\ params' = EmsmPublicParams_new(generators, seed_from_u64(seed)).params
    /\ stage' = "new"
    /\ UNCHANGED <<pre, witness, enc, dstate, resp, delta, result>>

\* Pedersen::rand for the generators, then EmsmPublicParams::new, on one rng
RandNew(n, seed) ==
    /\ stage = "start"
    /\ LET g == Pedersen_rand(n, seed_from_u64(seed))
       IN  params' = EmsmPublicParams_new(g.vec, g.rng).params
    /\ stage' = "new"
    /\ UNCHANGED <<pre, witness, enc, dstate, resp, delta, result>>

\* params.preprocess()
Preprocess ==
    /\ stage = "new"
    /\ pre' = preprocess(params)
    /\ stage' = "ready"
    /\ UNCHANGED <<params, witness, enc, dstate, resp, delta, result>>

\* encrypt(&params, &witness, &mut rng)
Encrypt(z, seed) ==
    /\ stage = "ready"
    /\ LET e == encrypt(params, z, seed_from_u64(seed))
       IN  /\ enc' = [masked |-> e.masked, masked_check |-> EmptyVec]
           /\ dstate' = [challenge |-> 0, lpn |-> e.lpn, lpn_check |-> NoLpn]
    /\ witness' = z
    /\ stage' = "encrypted"
    /\ UNCHANGED <<params, pre, resp, delta, result>>

\* params.server_computation(&masked)
ServerComputation ==
    /\ stage = "encrypted"
    /\ LET r == server_computation(params, enc.masked)
       IN  resp' = [ok |-> r.ok, err |-> r.err, em |-> r.val, em_ck |-> 0]
    /\ stage' = "evaluated"
    /\ UNCHANGED <<params, pre, witness, enc, dstate, delta, result>>

\* decrypt(server_result, &lpn, &preprocessed), after server_computation(..).unwrap()
Decrypt ==
    /\ stage = "evaluated"
    /\ resp.ok
    /\ result' = [ok |-> TRUE, err |-> "", val |-> decrypt(resp.em, dstate.lpn, pre)]
    /\ stage' = "decrypted"
    /\ UNCHANGED <<params, pre, witness, enc, dstate, resp, delta>>

\* malicious_encrypt(&params, &witness, &mut rng)
MaliciousEncrypt(z, seed) ==
    /\ stage = "ready"
    /\ LET e == malicious_encrypt(params, z, seed_from_u64(seed))
       IN  /\ enc' = e.encrypted
           /\ dstate' = e.state
    /\ witness' = z
    /\ stage' = "encrypted"
    /\ UNCHANGED <<params, pre, resp, delta, result>>

\* The server answers the two queries: malicious_server_evaluate when it is honest
\* (d = d_ck = 0); a cheating server returns its two MSMs moved by d and d_ck.
ServerRespond(d, d_ck) ==
    /\ stage = "encrypted"
    /\ LET r == malicious_server_evaluate(params, enc)
       IN  resp' = [ok |-> r.ok, err |-> r.err,
                    em |-> GAdd(r.em, d), em_ck |-> GAdd(r.em_ck, d_ck)]
    /\ delta' = [em |-> d, em_ck |-> d_ck]
    /\ stage' = "evaluated"
    /\ UNCHANGED <<params, pre, witness, enc, dstate, result>>

\* malicious_decrypt(em, em_ck, &state, &preprocessed)
MaliciousDecrypt ==
    /\ stage = "evaluated"
    /\ resp.ok
    /\ result' = malicious_decrypt(resp.em, resp.em_ck, dstate, pre)
    /\ stage' = "decrypted"
    /\ UNCHANGED <<params, pre, witness, enc, dstate, resp, delta>>

NextMalicious ==
    /\ \/ \E n \in 0 .. MaxN : \E seed \in Seeds : RandNew(n, seed)
       \/ Preprocess
       \/ \E z \in Vecs(F, VLen(params.generators)) : \E seed \in Seeds : MaliciousEncrypt(z, seed)
       \/ \E d \in G : \E d_ck \in G : ServerRespond(d, d_ck)
       \/ MaliciousDecrypt
    /\ UNCHANGED <<g16Vars, serverVars, clientVars, wireVars, paramVars, raaVars, sparseVars,
                 accVars, padVars>>

\* The malicious-secure EMSM pipeline against a server that may cheat.
SpecMalicious == Init /\ [][NextMalicious]_vars

NextEmsm ==
    /\ \/ \E n \in 0 .. MaxN : \E g \in Vecs(G, n) : \E seed \in Seeds : New(g, seed)
       \/ Preprocess
       \/ \E z \in Vecs(F, VLen(params.generators)) : \E seed \in Seeds : Encrypt(z, seed)
       \/ ServerComputation
       \/ Decrypt
    /\ UNCHANGED <<g16Vars, serverVars, clientVars, wireVars, paramVars, raaVars, sparseVars,
                 accVars, padVars>>

\* The semi-honest EMSM pipeline.
SpecEmsm == Init /\ [][NextEmsm]_vars

\* The client's setup: Groth16::circuit_specific_setup for the cube circuit, with
\* h_len bases for the quotient, then ServerAidedProvingKey::setup, on one rng
G16Setup(h_len, seed) ==
    /\ g16_stage = "start"
    /\ LET cs == CubeCircuit(0)
           k  == circuit_specific_setup(VLen(cs.instance_assignment),
                                        VLen(cs.witness_assignment), h_len, seed_from_u64(seed))
           w  == ServerAidedProvingKey_setup(k.pk, k.rng)
       IN  /\ g16_key' = w.sapk
           /\ g16_rng' = w.rng
    /\ g16_stage' = "ready"
    /\ UNCHANGED <<g16_state, g16_request, g16_response, g16_delta, g16_result>>

\* malicious_client_encrypt for CubeCircuit { x }
MaliciousClientEncrypt(x) ==
    /\ g16_stage = "ready"
    /\ \E cs \in {CubeCircuit(x)} :
       \E e \in {malicious_client_encrypt(g16_key, cs,
                      witness_map(cs, VLen(g16_key.pk.h_query)), g16_rng)} :
           /\ g16_request' = e.request
           /\ g16_state' = e.state
           /\ g16_rng' = e.rng
    /\ g16_stage' = "encrypted"
    /\ UNCHANGED <<g16_key, g16_response, g16_delta, g16_result>>

\* malicious_server_evaluate_groth16(&sapk, &request).unwrap()
MaliciousServerEvaluateGroth16 ==
    /\ g16_stage = "encrypted"
    /\ LET r == malicious_server_evaluate_groth16(g16_key, g16_request)
       IN  /\ r.ok
           /\ g16_response' = r.response
    /\ g16_stage' = "evaluated"
    /\ UNCHANGED <<g16_rng, g16_key, g16_state, g16_request, g16_delta, g16_result>>

\* The slots a server that cheats on at most MaxTampered slots may move, and what
\* it may add to the two responses of a slot it moves.
TamperedSlots == {t \in SUBSET Slots : Cardinality(t) \in 1 .. MaxTampered}
Offsets == [em : G, em_ck : G] \ {NoDelta}
Tampering(t, o) == [x \in Slots |-> IF x \in t THEN o[x] ELSE NoDelta]

\* A cheating server: the response reaches the client with offs[x].em added to
\* em_x and offs[x].em_ck added to em_x_ck (response.em_h = ... in the tampering test)
TamperResponse ==
    /\ g16_stage = "evaluated"
    /\ g16_delta = NoTamper
    /\ \E t \in TamperedSlots : \E o \in [t -> Offsets] :
        LET offs == Tampering(t, o) IN
        /\ g16_response' =
              [em_h      |-> GAdd(g16_response.em_h, offs["h"].em),
               em_h_ck   |-> GAdd(g16_response.em_h_ck, offs["h"].em_ck),
               em_l      |-> GAdd(g16_response.em_l, offs["l"].em),
               em_l_ck   |-> GAdd(g16_response.em_l_ck, offs["l"].em_ck),
               em_a      |-> GAdd(g16_response.em_a, offs["a"].em),
               em_a_ck   |-> GAdd(g16_response.em_a_ck, offs["a"].em_ck),
               em_b_g1   |-> GAdd(g16_response.em_b_g1, offs["b_g1"].em),
               em_b_g1_ck |-> GAdd(g16_response.em_b_g1_ck, offs["b_g1"].em_ck),
               em_b_g2   |-> GAdd(g16_response.em_b_g2, offs["b_g2"].em),
               em_b_g2_ck |-> GAdd(g16_response.em_b_g2_ck, offs["b_g2"].em_ck)]
        /\ g16_delta' = offs
    /\ UNCHANGED <<g16_stage, g16_rng, g16_key, g16_state, g16_request, g16_result>>

\* malicious_client_decrypt(&sapk, &response, &state)
MaliciousClientDecrypt ==
    /\ g16_stage = "evaluated"
    /\ g16_result' = malicious_client_decrypt(g16_key, g16_response, g16_state)
    /\ g16_stage' = "decrypted"
    /\ UNCHANGED <<g16_rng, g16_key, g16_state, g16_request, g16_response, g16_delta>>

NextG16Malicious ==
    /\ \/ \E seed \in Seeds : G16Setup(MaxN, seed)
       \/ \E x \in F : MaliciousClientEncrypt(x)
       \/ MaliciousServerEvaluateGroth16
       \/ TamperResponse
       \/ MaliciousClientDecrypt
    /\ UNCHANGED <<emsmVars, serverVars, clientVars, wireVars, paramVars, raaVars, sparseVars,
                 accVars, padVars>>

\* The malicious-secure Groth16 pipeline against a server that may cheat.
SpecG16Malicious == Init /\ [][NextG16Malicious]_vars

\* The proving keys of the semi-honest runs: h_query has as many bases as the
\* quotient has coefficients (MaxN, as witness_map is called below), or one
\* fewer, which is where pad_or_trim cuts
QuotientLens == {MaxN - 1, MaxN}

\* client_encrypt for CubeCircuit { x }
ClientEncrypt(x) ==
    /\ g16_stage = "ready"
    /\ \E cs \in {CubeCircuit(x)} :
       \E e \in {client_encrypt(g16_key, cs, witness_map(cs, MaxN), g16_rng)} :
           /\ g16_request' = e.request
           /\ g16_state' = e.state
           /\ g16_rng' = e.rng
    /\ g16_stage' = "encrypted"
    /\ UNCHANGED <<g16_key, g16_response, g16_delta, g16_result>>

\* server_evaluate(&sapk, &request).unwrap()
ServerEvaluate ==
    /\ g16_stage = "encrypted"
    /\ \E r \in {server_evaluate(g16_key, g16_request)} :
           /\ r.ok
           /\ g16_response' = r.response
    /\ g16_stage' = "evaluated"
    /\ UNCHANGED <<g16_rng, g16_key, g16_state, g16_request, g16_delta, g16_result>>

\* client_decrypt(&sapk, &response, &state)
ClientDecrypt ==
    /\ g16_stage = "evaluated"
    /\ g16_result' = [ok |-> TRUE, err |-> "",
                      proof |-> client_decrypt(g16_key, g16_response, g16_state)]
    /\ g16_stage' = "decrypted"
    /\ UNCHANGED <<g16_rng, g16_key, g16_state, g16_request, g16_response, g16_delta>>

NextG16 ==
    /\ \/ \E h_len \in QuotientLens : \E seed \in Seeds : G16Setup(h_len, seed)
       \/ \E x \in F : ClientEncrypt(x)
       \/ ServerEvaluate
       \/ ClientDecrypt
    /\ UNCHANGED <<emsmVars, serverVars, clientVars, wireVars, paramVars, raaVars, sparseVars,
                 accVars, padVars>>

\* The semi-honest Groth16 pipeline with an honest server.
SpecG16 == Init /\ [][NextG16]_vars

(***************************************************************************)
(* Calls of SparseVector::error_vec.                                       *)
(***************************************************************************)
\* The states the rng may be in when error_vec is called, and the sizes asked
\* for: up to the 4n positions of a code over n <= MaxN generators
RngStates == 0 .. 126
ErrorVecSizes == 0 .. (4 * MaxN)

\* SparseVector::error_vec(size, t, rng); t = size + 1 fails the assertion
ErrorVec(size, t, rng) ==
    /\ Len(sparse_calls) < 1
    /\ sparse_calls' = Append(sparse_calls,
                              [size |-> size, t |-> t, rng |-> rng,
                               out |-> error_vec(size, t, rng)])

NextSparse ==
    /\ \E size \in ErrorVecSizes : \E t \in 0 .. (size + 1) : \E rng \in RngStates :
           ErrorVec(size, t, rng)
    /\ UNCHANGED <<emsmVars, g16Vars, serverVars, clientVars, wireVars, paramVars, raaVars,
                 accVars, padVars>>

\* SparseVector::error_vec on every size, every weight and every rng state.
SpecSparse == Init /\ [][NextSparse]_vars

(***************************************************************************)
(* The requests clients send to the server.                                *)
(***************************************************************************)
SlotOrder == <<"h", "l", "a", "b_g1", "b_g2">>
SlotIndex(x) == CHOOSE j \in 1 .. 5 : SlotOrder[j] = x

\* The number of bases of slot x: H has its own, the other four the witness's.
BaseLen(x) == IF x = "h" THEN 1 ELSE 2

\* The proving keys clients hold: key k gives slot x these bases.
Keys == {1, 2}
KeyBases(k, x) == Collect([i \in 0 .. (BaseLen(x) - 1) |-> (k + SlotIndex(x) + i) % FieldOrder])

\* A masked vector of len scalars for slot x.
MaskedVec(x, len) == Collect([i \in 0 .. (len - 1) |-> 1 + (SlotIndex(x) % 2)])

\* The body of a setup for key k under sid (client.rs: setup).
SetupBody(sid, k) == <<sid, [j \in 1 .. 5 |-> ark_vec_to_bytes(KeyBases(k, SlotOrder[j]))]>>

\* What a client may send for slot x: the vector of the right length, one that
\* is shorter or longer by one, one with words after its last element, one
\* with a non-canonical element, and one whose length prefix is over MAX_VEC_LEN.
GoodBlob(x) == ark_vec_to_bytes(MaskedVec(x, BaseLen(x)))
WrongLengthBlobs(x) ==
    { ark_vec_to_bytes(MaskedVec(x, BaseLen(x) - 1)),
      ark_vec_to_bytes(MaskedVec(x, BaseLen(x) + 1)) }
OddBlobs(x) == { GoodBlob(x) \o <<0>>, <<1, FieldOrder>>, <<MAX_VEC_LEN + 1>> }

\* The body of a prove under sid whose slot x carries blob, the others being as
\* the stored bases expect them.
ProveBody(sid, x, blob) ==
    <<sid, [j \in 1 .. 5 |-> IF SlotOrder[j] = x THEN blob ELSE GoodBlob(SlotOrder[j])]>>

\* Bodies that are no envelope, or whose request is no request.
MalformedBodies == { << >>, <<"A", << >> >> }

SetupBodies ==
    {SetupBody(sid, k) : sid \in SessionIds, k \in Keys}
    \cup {<<"A", [j \in 1 .. 5 |-> IF j = 5 THEN <<1, FieldOrder>>
                                   ELSE ark_vec_to_bytes(KeyBases(1, SlotOrder[j]))]>>}
    \cup MalformedBodies

ProveBodies ==
    {ProveBody(sid, "h", GoodBlob("h")) : sid \in SessionIds}
    \cup UNION {{ProveBody("A", x, blob) : blob \in WrongLengthBlobs(x)} : x \in Slots}
    \cup {ProveBody("A", "l", blob) : blob \in OddBlobs("l")}
    \cup {ProveBody("B", "b_g2", blob) : blob \in WrongLengthBlobs("b_g2")}
    \cup MalformedBodies

(***************************************************************************)
(* The handlers, cut where they wait for the lock.                         *)
(***************************************************************************)
\* A request arrives and is given to the first handler that is free.
Free(t) ==
    /\ tasks[t].pc \in {"idle", "done"}
    /\ \A u \in Handlers : u < t => tasks[u].pc \notin {"idle", "done"}
    /\ nreq < MaxRequests

\* handle_setup from the body to state.write(): a body that does not
\* deserialize is answered with 400
SetupStart(t, body) ==
    /\ Free(t)
    /\ nreq' = nreq + 1
    /\ \E p \in {handle_setup_parse(body)} :
         tasks' = [tasks EXCEPT ![t] =
            IF p.status # OK
            THEN [IdleTask EXCEPT !.pc = "done", !.kind = "setup", !.body = body,
                                  !.status = p.status]
            ELSE [IdleTask EXCEPT !.pc = "wait", !.kind = "setup", !.body = body,
                                  !.session_id = p.session_id, !.session = p.session]]
    /\ UNCHANGED <<sessions, lock, ins_log, returned, seen412>>

\* (mutant) the write guard is granted while read guards are still held
SetupInsert_over_readers(t) ==
    /\ tasks[t].pc = "wait" /\ tasks[t].kind = "setup"
    /\ lock.writer = 0
    /\ lock' = [lock EXCEPT !.writer = t]
    /\ sessions' = HashMap_insert(sessions, tasks[t].session_id, tasks[t].session)
    /\ ins_log' = [ins_log EXCEPT ![tasks[t].session_id] = Append(@, tasks[t].session)]
    /\ tasks' = [tasks EXCEPT ![t].pc = "locked",
                              ![t].used = Len(ins_log[tasks[t].session_id]) + 1]
    /\ UNCHANGED <<nreq, returned, seen412>>

\* state.write().await is granted and the session is inserted
SetupInsert(t) ==
    /\ tasks[t].pc = "wait" /\ tasks[t].kind = "setup"
    /\ lock.writer = 0 /\ lock.readers = {}
    /\ lock' = [lock EXCEPT !.writer = t]
    /\ sessions' = HashMap_insert(sessions, tasks[t].session_id, tasks[t].session)
    /\ ins_log' = [ins_log EXCEPT ![tasks[t].session_id] = Append(@, tasks[t].session)]
    /\ tasks' = [tasks EXCEPT ![t].pc = "locked",
                              ![t].used = Len(ins_log[tasks[t].session_id]) + 1]
    /\ UNCHANGED <<nreq, returned, seen412>>

\* handle_setup returns StatusCode::OK and the write guard is dropped
SetupReturn(t) ==
    /\ tasks[t].pc = "locked" /\ tasks[t].kind = "setup"
    /\ lock' = [lock EXCEPT !.writer = 0]
    /\ returned' = [returned EXCEPT ![tasks[t].session_id] = Max(@, tasks[t].used)]
    /\ tasks' = [tasks EXCEPT ![t].pc = "done", ![t].status = OK]
    /\ UNCHANGED <<sessions, nreq, ins_log, seen412>>

\* handle_prove from the body to state.read(): a body that does not
\* deserialize is answered with 400
ProveStart(t, body) ==
    /\ Free(t)
    /\ nreq' = nreq + 1
    /\ \E p \in {handle_prove_parse(body)} :
         tasks' = [tasks EXCEPT ![t] =
            IF p.status # OK
            THEN [IdleTask EXCEPT !.pc = "done", !.kind = "prove", !.body = body,
                                  !.status = p.status]
            ELSE [IdleTask EXCEPT !.pc = "wait", !.kind = "prove", !.body = body,
                                  !.session_id = p.session_id, !.request = p.request,
                                  !.start_ret = returned[p.session_id],
                                  !.prior_412 = seen412]]
    /\ UNCHANGED <<sessions, lock, ins_log, returned, seen412>>

\* (mutant) an unknown session is created empty by the lookup (entry().or_default())
ProveLookup_or_default(t) ==
    /\ tasks[t].pc = "wait" /\ tasks[t].kind = "prove"
    /\ lock.writer = 0
    /\ sessions' = HashMap_insert(sessions, tasks[t].session_id,
                                  HashMap_get(sessions, tasks[t].session_id).value)
    /\ lock' = [lock EXCEPT !.readers = @ \cup {t}]
    /\ tasks' = [tasks EXCEPT ![t].pc = "locked",
                              ![t].session = HashMap_get(sessions, tasks[t].session_id).value,
                              ![t].used = Len(ins_log[tasks[t].session_id])]
    /\ UNCHANGED <<nreq, ins_log, returned, seen412>>

\* state.read().await is granted and the session is looked up: an unknown
\* session id is answered with 412, the read guard being dropped
ProveLookup(t) ==
    /\ tasks[t].pc = "wait" /\ tasks[t].kind = "prove"
    /\ lock.writer = 0
    /\ \E g \in {HashMap_get(sessions, tasks[t].session_id)} :
         IF g.found
         THEN /\ lock' = [lock EXCEPT !.readers = @ \cup {t}]
              /\ tasks' = [tasks EXCEPT ![t].pc = "locked", ![t].session = g.value,
                                        ![t].used = Len(ins_log[tasks[t].session_id])]
              /\ UNCHANGED seen412
         ELSE /\ tasks' = [tasks EXCEPT ![t].pc = "done", ![t].status = PRECONDITION_FAILED,
                                        ![t].used = Len(ins_log[tasks[t].session_id])]
              /\ seen412' = TRUE
              /\ UNCHANGED lock
    /\ UNCHANGED <<sessions, nreq, ins_log, returned>>

\* the rest of handle_prove, under the read guard, which is dropped on return
ProveCompute(t) ==
    /\ tasks[t].pc = "locked" /\ tasks[t].kind = "prove"
    /\ \E r \in {handle_prove_session(tasks[t].session, tasks[t].request)} :
         tasks' = [tasks EXCEPT ![t].pc = "done", ![t].status = r.status,
                                ![t].response = r.response]
    /\ lock' = [lock EXCEPT !.readers = @ \ {t}]
    /\ UNCHANGED <<sessions, nreq, ins_log, returned, seen412>>

NextServer ==
    /\ \/ \E t \in Handlers : \E body \in SetupBodies : SetupStart(t, body)
       \/ \E t \in Handlers : SetupInsert(t)
       \/ \E t \in Handlers : SetupReturn(t)
       \/ \E t \in Handlers : \E body \in ProveBodies : ProveStart(t, body)
       \/ \E t \in Handlers : ProveLookup(t)
       \/ \E t \in Handlers : ProveCompute(t)
    /\ UNCHANGED <<emsmVars, g16Vars, clientVars, wireVars, paramVars, raaVars, sparseVars,
                 accVars, padVars>>

\* The session server under requests that arrive and are handled side by side.
SpecServer == Init /\ [][NextServer]_vars

(***************************************************************************)
(* bin/client.rs: main, step by step.  A step that ends in `?` either goes *)
(* on or makes main return the error.                                      *)
(***************************************************************************)
\* The session ids rand::random::<u64>() may give, as format!("{:016x}") prints them.
ClientSessionIds == {<<"session", k>> : k \in 0 .. MaxSeed}

\* The answers a POST may get: none, or a status and a body.
HttpStatuses == {OK, 204, BAD_REQUEST, PRECONDITION_FAILED, 500}
HttpAnswers ==
    {[arrived |-> FALSE, status |-> 0, body_ok |-> FALSE]}
    \cup [arrived : {TRUE}, status : HttpStatuses, body_ok : BOOLEAN]

\* main returns Err(..)
Bail == cl_pc' = "exit" /\ cl_exit' = "err"

\* let session_id = format!("{:016x}", rand::random::<u64>())
ClientStart(sid) ==
    /\ cl_pc = "start"
    /\ cl_session_id' = sid
    /\ cl_pc' = "keys"
    /\ UNCHANGED <<cl_posted, cl_setup, cl_prove, cl_exit>>

\* circom_setup(..)? and ServerAidedProvingKey::setup
ClientKeys(ok) ==
    /\ cl_pc = "keys"
    /\ IF ok THEN cl_pc' = "setup" /\ UNCHANGED cl_exit ELSE Bail
    /\ UNCHANGED <<cl_session_id, cl_posted, cl_setup, cl_prove>>

\* send_setup up to send().await: the setup envelope is posted
ClientPostSetup ==
    /\ cl_pc = "setup"
    /\ cl_posted' = Append(cl_posted, [path |-> "/setup", session_id |-> cl_session_id])
    /\ cl_pc' = "setup_sent"
    /\ UNCHANGED <<cl_session_id, cl_setup, cl_prove, cl_exit>>

\* http_client.send_setup(&setup_request).await?
ClientSetupReturns(answer) ==
    /\ cl_pc = "setup_sent"
    /\ \E r \in {send_setup(answer)} :
          /\ cl_setup' = [called |-> TRUE, ok |-> r.ok, err |-> r.err,
                          arrived |-> answer.arrived, status |-> answer.status]
          /\ IF r.ok THEN cl_pc' = "encrypt" /\ UNCHANGED cl_exit ELSE Bail
    /\ UNCHANGED <<cl_session_id, cl_posted, cl_prove>>

\* build_circuit(..)? and client_encrypt(..)?
ClientEncrypts(ok) ==
    /\ cl_pc = "encrypt"
    /\ IF ok THEN cl_pc' = "prove" /\ UNCHANGED cl_exit ELSE Bail
    /\ UNCHANGED <<cl_session_id, cl_posted, cl_setup, cl_prove>>

\* send_prove up to send().await: the prove envelope is posted
ClientPostProve ==
    /\ cl_pc = "prove"
    /\ cl_posted' = Append(cl_posted, [path |-> "/prove", session_id |-> cl_session_id])
    /\ cl_pc' = "prove_sent"
    /\ UNCHANGED <<cl_session_id, cl_setup, cl_prove, cl_exit>>

\* http_client.send_prove(&prove_request).await?
ClientProveReturns(answer) ==
    /\ cl_pc = "prove_sent"
    /\ \E r \in {send_prove(answer)} :
          /\ cl_prove' = [called |-> TRUE, ok |-> r.ok, err |-> r.err,
                          arrived |-> answer.arrived, status |-> answer.status]
          /\ IF r.ok THEN cl_pc' = "decode" /\ UNCHANGED cl_exit ELSE Bail
    /\ UNCHANGED <<cl_session_id, cl_posted, cl_setup>>

\* the five ark_from_bytes(..)?, client_decrypt, Groth16::verify(..)? and Ok(())
ClientFinishes(ok) ==
    /\ cl_pc = "decode"
    /\ cl_pc' = "exit"
    /\ cl_exit' = IF ok THEN "ok" ELSE "err"
    /\ UNCHANGED <<cl_session_id, cl_posted, cl_setup, cl_prove>>

NextClient ==
    /\ \/ \E sid \in ClientSessionIds : ClientStart(sid)
       \/ \E ok \in BOOLEAN : ClientKeys(ok)
       \/ ClientPostSetup
       \/ \E answer \in HttpAnswers : ClientSetupReturns(answer)
       \/ \E ok \in BOOLEAN : ClientEncrypts(ok)
       \/ ClientPostProve
       \/ \E answer \in HttpAnswers : ClientProveReturns(answer)
       \/ \E ok \in BOOLEAN : ClientFinishes(ok)
    /\ UNCHANGED <<emsmVars, g16Vars, serverVars, wireVars, paramVars, raaVars, sparseVars,
                 accVars, padVars>>

\* One run of the client binary against whatever answers its requests.
SpecClient == Init /\ [][NextClient]_vars

(***************************************************************************)
(* protocol/messages.rs at work: a vector is serialized and the bytes are  *)
(* deserialized (as in test_scalar_roundtrip, test_point_roundtrip), or    *)
(* bytes that no serializer wrote are deserialized (as in                  *)
(* test_malformed_bytes_return_error, test_oversized_length_rejected).     *)
(***************************************************************************)
\* The vectors serialized element by element.
WireVecs == UNION {Vecs(F, n) : n \in 0 .. MaxLen}

\* The lengths of the vectors held as Repeat(elem, len): around MAX_VEC_LEN.
LongLens == {MAX_VEC_LEN - 1, MAX_VEC_LEN, MAX_VEC_LEN + 1, 2 * MAX_VEC_LEN}

\* The words of a byte string from the network: the elements, a word that is
\* no element, and lengths around MAX_VEC_LEN.
WireWords == (0 .. FieldOrder) \cup {MAX_VEC_LEN, MAX_VEC_LEN + 1}
WireBytes == UNION {[1 .. k -> WireWords] : k \in 0 .. MaxLen}

\* ark_vec_from_bytes(&ark_vec_to_bytes(&v))
WireRoundTrip(v) ==
    /\ wire_pc = "start"
    /\ \E bytes \in {ark_vec_to_bytes(v)} :
          /\ wire_in' = [kind |-> "vec", vec |-> v, bytes |-> bytes]
          /\ wire_out' = ark_vec_from_bytes(bytes)
    /\ wire_pc' = "done"

\* the same for vec![elem; len]
WireRoundTripRepeat(elem, len) ==
    /\ wire_pc = "start"
    /\ wire_in' = [kind |-> "repeat", vec |-> Repeat(elem, len), bytes |-> <<len>>]
    /\ wire_out' = round_trip_repeat(elem, len)
    /\ wire_pc' = "done"

\* ark_vec_from_bytes(&bytes) on bytes from the network
WireParse(bytes) ==
    /\ wire_pc = "start"
    /\ wire_in' = [kind |-> "bytes", vec |-> EmptyVec, bytes |-> bytes]
    /\ wire_out' = ark_vec_from_bytes(bytes)
    /\ wire_pc' = "done"

NextWire ==
    /\ \/ \E v \in WireVecs : WireRoundTrip(v)
       \/ \E elem \in F : \E len \in LongLens : WireRoundTripRepeat(elem, len)
       \/ \E bytes \in WireBytes : WireParse(bytes)
    /\ UNCHANGED <<emsmVars, g16Vars, serverVars, clientVars, paramVars, raaVars, sparseVars,
                 accVars, padVars>>

\* The vector codec on vectors and on byte strings.
SpecWire == Init /\ [][NextWire]_vars

(***************************************************************************)
(* emsm/params.rs at work: get_lpn_params is called on two vector lengths, *)
(* as test_params_monotonic does.                                          *)
(***************************************************************************)
\* The lengths asked about: the small ones, where t is clamped, and the ones at
\* and next to every power of two from 2^10 to 2^24.
ParamLengths ==
    (0 .. (8 * MaxN)) \cup {2 ^ k + d : k \in 10 .. 24, d \in {-1, 0, 1}}

\* let p = get_lpn_params(n)
GetLpnParams(n) ==
    /\ Len(lpn_calls) < 2
    /\ lpn_calls' = Append(lpn_calls, [n |-> n, params |-> get_lpn_params(n)])

NextParams ==
    /\ \E n \in ParamLengths : GetLpnParams(n)
    /\ UNCHANGED <<emsmVars, g16Vars, serverVars, clientVars, wireVars, raaVars, sparseVars,
                 accVars, padVars>>

\* get_lpn_params on pairs of lengths.
SpecParams == Init /\ [][NextParams]_vars

(***************************************************************************)
(* emsm/raa_code.rs at work: a TOperator is made, then applied to a sparse *)
(* vector and, transposed, to a vector of group elements.                  *)
(***************************************************************************)
\* Every permutation of 0 .. big_n-1.
PermutationsOf(big_n) ==
    {f \in [0 .. (big_n - 1) -> 0 .. (big_n - 1)] :
        \A i, j \in 0 .. (big_n - 1) : f[i] = f[j] => i = j}

\* The TOperators over n: for n <= 1 every pair of permutations of 0 .. 4n-1;
\* beyond, those TOperator::rand draws from the seeds and those over two of the
\* identity, the reversal and the rotation by one.
RaaOperators(n) ==
    IF n <= 1
    THEN {TOperator_of(n, Collect(p), Collect(q)) :
             p \in PermutationsOf(4 * n), q \in PermutationsOf(4 * n)}
    ELSE LET id  == Collect([i \in 0 .. (4 * n - 1) |-> i])
             rev == Collect([i \in 0 .. (4 * n - 1) |-> 4 * n - 1 - i])
             rot == Collect([i \in 0 .. (4 * n - 1) |-> (i + 1) % (4 * n)])
         IN  {TOperator_rand(n, seed_from_u64(seed)).op : seed \in Seeds}
             \cup {TOperator_of(n, id, rev), TOperator_of(n, rev, rot),
                    TOperator_of(n, rot, id)}

\* The sparse vectors over size positions: no entry, one entry, or two entries
\* that are not zero, at one index or at two.
SparseEntries(size) ==
    LET entry == (0 .. (size - 1)) \X F
    IN  {<< >>} \cup {<<a>> : a \in entry}
        \cup {ab \in {<<a, b>> : a \in entry, b \in entry} :
                 ab[1][2] # 0 /\ ab[2][2] # 0 /\ ab[1][1] <= ab[2][1]}

\* a TOperator over two permutations of 0 .. 4n-1
RaaOperator ==
    /\ raa_pc = "start"
    /\ \E n \in 0 .. MaxN : \E op \in RaaOperators(n) : raa_op' = op
    /\ raa_pc' = "operator"
    /\ UNCHANGED <<raa_e, raa_g, raa_te, raa_ttg>>

\* op.multiply_sparse(&e) and op.multiply_transpose_group(&g)
RaaMultiply ==
    /\ raa_pc = "operator"
    /\ \E e \in SparseEntries(raa_op.big_n) : \E g \in Vecs(G, raa_op.n) :
          /\ raa_e' = e
          /\ raa_g' = g
          /\ raa_te' = multiply_sparse(raa_op, e)
          /\ raa_ttg' = multiply_transpose_group(raa_op, g)
    /\ raa_pc' = "done"
    /\ UNCHANGED raa_op

NextRaa ==
    /\ \/ RaaOperator
       \/ RaaMultiply
    /\ UNCHANGED <<emsmVars, g16Vars, serverVars, clientVars, wireVars, paramVars, sparseVars,
                 accVars, padVars>>

\* The RAA operator and its transpose.
SpecRaa == Init /\ [][NextRaa]_vars

\* op.multiply_sparse(&e) alone
RaaMultiplySparse ==
    /\ raa_pc = "operator"
    /\ \E e \in SparseEntries(raa_op.big_n) :
          /\ raa_e' = e
          /\ raa_te' = multiply_sparse(raa_op, e)
    /\ raa_pc' = "sparse"
    /\ UNCHANGED <<raa_op, raa_g, raa_ttg>>

NextRaaSparse ==
    /\ \/ RaaOperator
       \/ RaaMultiplySparse
    /\ UNCHANGED <<emsmVars, g16Vars, serverVars, clientVars, wireVars, paramVars, sparseVars,
                 accVars, padVars>>

\* The RAA operator on sparse vectors.
SpecRaaSparse == Init /\ [][NextRaaSparse]_vars

\* TOperator::rand(n, &mut rng), the rng in any of its states
RaaRand(n, rng) ==
    /\ raa_pc = "start"
    /\ raa_op' = TOperator_rand(n, rng).op
    /\ raa_pc' = "rand"
    /\ UNCHANGED <<raa_e, raa_g, raa_te, raa_ttg>>

NextRaaRand ==
    /\ \E n \in 0 .. MaxN : \E rng \in RngStates : RaaRand(n, rng)
    /\ UNCHANGED <<emsmVars, g16Vars, serverVars, clientVars, wireVars, paramVars, sparseVars,
                 accVars, padVars>>

\* The TOperators that TOperator::rand draws.
SpecRaaRand == Init /\ [][NextRaaRand]_vars

(***************************************************************************)
(* Calls of accumulate_inplace on vectors of PARALLEL_THRESHOLD elements   *)
(* or more, each the same element repeated.                                *)
(***************************************************************************)
\* The lengths: the threshold and the multiples of four just above it (the 4n of
\* multiply_sparse), twice the threshold, and the 4n of n = 281601 generators
LongVecLens ==
    {PARALLEL_THRESHOLD + 4 * d : d \in 0 .. MaxLen}
        \cup {2 * PARALLEL_THRESHOLD, 4 * 281601}
\* rayon::current_num_threads(): small pools, pools around n / 1024, large pools
ThreadCounts == (1 .. (MaxLen + 1)) \cup {63, 64, 65, 128, 1024, 1100}

\* the indices looked at: both ends of the vector, and the two sides of the
\* boundaries of the first and the last chunk
IndicesOf(n, num_threads) ==
    LET chunk_size == div_ceil(n, Max(Min(num_threads, n \div 1024), 1))
    IN  {i \in {0, 1, chunk_size - 1, chunk_size, chunk_size + 1,
                ((n - 1) \div chunk_size) * chunk_size - 1,
                ((n - 1) \div chunk_size) * chunk_size, n - 2, n - 1} :
            i >= 0 /\ i < n}

\* accumulate_inplace(&mut v) for v = vec![elem; n]
AccumulateInplace(elem, n, num_threads) ==
    /\ Len(acc_calls) < 1
    /\ n >= PARALLEL_THRESHOLD
    /\ acc_calls' = Append(acc_calls,
                           [elem |-> elem, n |-> n, num_threads |-> num_threads,
                            out |-> accumulate_inplace_parallel(elem, n, num_threads,
                                        IndicesOf(n, num_threads))])

NextAccumulate ==
    /\ \E elem \in F : \E n \in LongVecLens : \E num_threads \in ThreadCounts :
           AccumulateInplace(elem, n, num_threads)
    /\ UNCHANGED <<emsmVars, g16Vars, serverVars, clientVars, wireVars, paramVars, raaVars,
                   sparseVars, padVars>>

\* The parallel branch of accumulate_inplace.
SpecAccumulate == Init /\ [][NextAccumulate]_vars

(***************************************************************************)
(* Calls of pad_or_trim.                                                   *)
(***************************************************************************)
\* pad_or_trim(&v, target_len)
PadOrTrim(v, target_len) ==
    /\ Len(pad_calls) < 1
    /\ pad_calls' = Append(pad_calls,
                           [v |-> v, target_len |-> target_len,
                            out |-> pad_or_trim(v, target_len)])

NextPad ==
    /\ \E len \in 0 .. MaxLen : \E v \in Vecs(F, len) : \E target_len \in 0 .. (MaxLen + 1) :
           PadOrTrim(v, target_len)
    /\ UNCHANGED <<emsmVars, g16Vars, serverVars, clientVars, wireVars, paramVars, raaVars,
                   sparseVars, accVars>>

\* pad_or_trim on every short vector and every target length.
SpecPad == Init /\ [][NextPad]_vars

(***************************************************************************)
(* The plaintext MSM sum_i z[i] * g[i] that the claims compare against.    *)
(***************************************************************************)
RECURSIVE PlainMsmFrom(_, _, _)
PlainMsmFrom(g, z, i) ==
    IF i >= VLen(g) THEN 0 ELSE (z[i] * g[i] + PlainMsmFrom(g, z, i + 1)) % FieldOrder
PlainMsm(g, z) == PlainMsmFrom(g, z, 0)

(***************************************************************************)
(* C1.  EMSM round trip: whatever the generators, the witness, the two     *)
(* permutations of T and the noise encrypt sampled, decrypting the         *)
(* server's MSM of the masked vector gives the plaintext MSM of the        *)
(* witness, sum_i z[i] * g[i].                                             *)
(***************************************************************************)
C1_RoundTrip ==
    stage = "decrypted" =>
        /\ VLen(witness) = VLen(params.generators)
        /\ result.ok
        /\ result.val = PlainMsm(params.generators, witness)

\* A round trip over two generators in which the mask changed the vector sent, the
\* noise contribution is not zero and the plaintext MSM is not zero.
C1_Witness ==
    /\ stage = "decrypted"
    /\ VLen(witness) = 2
    /\ enc.masked # witness
    /\ resp.em # result.val
    /\ result.val # 0
    /\ params.t_operator.perm_p # params.t_operator.perm_q

(***************************************************************************)
(* C2.  Malicious honest path: when the server returns the honest MSMs of  *)
(* the two masked vectors, malicious_decrypt returns Ok and its value is   *)
(* the plaintext MSM of the witness, for every challenge c, c = 0 too.     *)
(***************************************************************************)
C2_HonestPath ==
    (stage = "decrypted" /\ delta = NoDelta) =>
        /\ result.ok
        /\ result.val = PlainMsm(params.generators, witness)

\* An honest run under the challenge c = 0 with a nonzero plaintext MSM.
C2_Witness ==
    /\ stage = "decrypted"
    /\ delta = NoDelta
    /\ dstate.challenge = 0
    /\ VLen(witness) = 2
    /\ result.ok
    /\ result.val # 0

(***************************************************************************)
(* C3.  Malicious soundness condition: malicious_decrypt returns Ok(dm)    *)
(* exactly when dm_ck = c * dm, and ConsistencyCheckFailed otherwise; so   *)
(* when the server returns (honest + D, honest_ck + D_ck) the check passes *)
(* exactly when D_ck = c * D, and then the value returned is the plaintext *)
(* MSM moved by D.                                                         *)
(***************************************************************************)
C3_Soundness ==
    stage = "decrypted" =>
        LET dm    == decrypt(resp.em, dstate.lpn, pre)
            dm_ck == decrypt(resp.em_ck, dstate.lpn_check, pre)
            c     == dstate.challenge
        IN  /\ result.ok <=> (dm_ck = (c * dm) % FieldOrder)
            /\ result.ok <=> (delta.em_ck = (c * delta.em) % FieldOrder)
            /\ result.ok => /\ result.val = dm
                            /\ result.val = (PlainMsm(params.generators, witness) + delta.em) % FieldOrder
            /\ ~result.ok => result.err = "ConsistencyCheckFailed"

\* A cheating server that moved both responses consistently with the challenge:
\* the check passes and a wrong MSM is returned.
C3_Witness ==
    /\ stage = "decrypted"
    /\ VLen(witness) = 2
    /\ delta.em # 0
    /\ delta.em_ck # 0
    /\ result.ok
    /\ result.val # PlainMsm(params.generators, witness)

(***************************************************************************)
(* C4.  Malicious cheating detection: with a nonzero D added to exactly    *)
(* one of the two responses, and everything else of the run (generators,   *)
(* T, witness, the two noise vectors) held fixed, malicious_decrypt fails  *)
(* for all values of the challenge but at most one.                        *)
(***************************************************************************)
\* Whether the check passes if the run's challenge is c instead: the two masked
\* vectors under c, the honest MSMs of them moved as the server moved them.
PassesWith(c) ==
    LET z    == witness
        cz   == Collect([i \in DOMAIN z |-> (c * z[i]) % FieldOrder])
        v    == mask_witness(dstate.lpn, z)
        v_ck == mask_witness(dstate.lpn_check, cz)
        hon  == malicious_server_evaluate(params, [masked |-> v, masked_check |-> v_ck])
    IN  malicious_decrypt(GAdd(hon.em, delta.em), GAdd(hon.em_ck, delta.em_ck),
                          [challenge |-> c, lpn |-> dstate.lpn, lpn_check |-> dstate.lpn_check],
                          pre).ok

C4_CheatingDetected ==
    (stage = "decrypted" /\ ((delta.em # 0) # (delta.em_ck # 0))) =>
        /\ result.ok = PassesWith(dstate.challenge)
        /\ Cardinality({c \in F : PassesWith(c)}) <= 1

\* The one challenge that lets a tampered first response through: c = 0.
C4_Witness ==
    /\ stage = "decrypted"
    /\ delta.em # 0
    /\ delta.em_ck = 0
    /\ VLen(witness) = 2
    /\ result.ok

(***************************************************************************)
(* C5.  Malicious orchestrator fail-stop: malicious_client_decrypt returns *)
(* ConsistencyCheckFailed and no proof whenever the consistency check of   *)
(* at least one of the five slots H, L, A, B1, B2 fails, and returns a     *)
(* proof only when all five checks pass.                                   *)
(***************************************************************************)
\* The two responses, the decrypt state and the preprocessed vector of slot x.
SlotOf(x) ==
    CASE x = "h"    -> [em |-> g16_response.em_h, em_ck |-> g16_response.em_h_ck,
                        ds |-> g16_state.ds_h, pre |-> g16_key.pre_h]
      [] x = "l"    -> [em |-> g16_response.em_l, em_ck |-> g16_response.em_l_ck,
                        ds |-> g16_state.ds_l, pre |-> g16_key.pre_l]
      [] x = "a"    -> [em |-> g16_response.em_a, em_ck |-> g16_response.em_a_ck,
                        ds |-> g16_state.ds_a, pre |-> g16_key.pre_a]
      [] x = "b_g1" -> [em |-> g16_response.em_b_g1, em_ck |-> g16_response.em_b_g1_ck,
                        ds |-> g16_state.ds_b_g1, pre |-> g16_key.pre_b_g1]
      [] x = "b_g2" -> [em |-> g16_response.em_b_g2, em_ck |-> g16_response.em_b_g2_ck,
                        ds |-> g16_state.ds_b_g2, pre |-> g16_key.pre_b_g2]

\* The consistency check of slot x on the response the client received.
SlotCheckPasses(x) ==
    LET sl == SlotOf(x) IN malicious_decrypt(sl.em, sl.em_ck, sl.ds, sl.pre).ok

C5_FailStop ==
    g16_stage = "decrypted" =>
        /\ (\E x \in Slots : ~SlotCheckPasses(x)) =>
              /\ ~g16_result.ok
              /\ g16_result.err = "ConsistencyCheckFailed"
              /\ g16_result.proof = NoProof
        /\ g16_result.ok => \A x \in Slots : SlotCheckPasses(x)
        /\ \A x \in Slots :
              SlotCheckPasses(x) <=>
                  (g16_delta[x].em_ck = GMul(g16_delta[x].em, SlotOf(x).ds.challenge))

\* The server cheated on two slots; its change to H is consistent with H's
\* challenge and passes, its change to B2 (the last slot checked) does not, and
\* decrypt fails.
C5_Witness ==
    /\ g16_stage = "decrypted"
    /\ g16_delta["h"].em # 0
    /\ SlotCheckPasses("h")
    /\ g16_delta["b_g2"] # NoDelta
    /\ ~SlotCheckPasses("b_g2")
    /\ \A x \in Slots \ {"b_g2"} : SlotCheckPasses(x)
    /\ ~g16_result.ok

(***************************************************************************)
(* What the claims about the server speak of.                              *)
(***************************************************************************)
\* Handler t holds a prove request whose envelope and request deserialize.
WellFormedProve(t) ==
    /\ tasks[t].kind = "prove"
    /\ Len(tasks[t].body) >= 2
    /\ Len(tasks[t].body[2]) >= 5

\* That request has been answered.
AnsweredProve(t) == WellFormedProve(t) /\ tasks[t].pc = "done"

\* The masked vector of slot x in the request of handler t, as it deserializes.
MaskedOf(t, x) == ark_vec_from_bytes(tasks[t].body[2][SlotIndex(x)])

\* The bases of slot x in a session.
BasesOf(session, x) ==
    CASE x = "h"    -> session.h_generators
      [] x = "l"    -> session.l_generators
      [] x = "a"    -> session.a_generators
      [] x = "b_g1" -> session.b_g1_generators
      [] x = "b_g2" -> session.b_g2_generators

\* The session that was stored under the session id of handler t's request when
\* the handler looked it up: the latest inserted under that id until then.
StoredFor(t) == ins_log[tasks[t].session_id][tasks[t].used]

\* The five masked vectors deserialize and are as long as the stored bases.
Matching(t) ==
    \A x \in Slots : /\ MaskedOf(t, x).ok
                     /\ VLen(MaskedOf(t, x).vals) = VLen(BasesOf(StoredFor(t), x))

\* The response carries, for each slot, the MSM of the masked vector over the
\* bases of session.
ResponseOver(t, session) ==
    /\ Len(tasks[t].response) = 5
    /\ \A x \in Slots :
          /\ ark_from_bytes(tasks[t].response[SlotIndex(x)]).ok
          /\ ark_from_bytes(tasks[t].response[SlotIndex(x)]).val
                 = PlainMsm(BasesOf(session, x), MaskedOf(t, x).vals)

(***************************************************************************)
(* C6.  Unknown session and isolation: a prove request that deserializes   *)
(* and whose session id has had no setup inserted is answered with 412,    *)
(* whatever other sessions are stored, and with 412 only then; the step    *)
(* that rejects it changes no session; and a prove that arrives after a    *)
(* rejection, under a session id that was set up and with vectors that     *)
(* match, is answered with 200.                                            *)
(***************************************************************************)
C6_Answers ==
    \A t \in Handlers : AnsweredProve(t) =>
        /\ (tasks[t].status = PRECONDITION_FAILED) <=> (tasks[t].used = 0)
        /\ (tasks[t].prior_412 /\ tasks[t].used > 0 /\ Matching(t)) =>
               /\ tasks[t].status = OK
               /\ ResponseOver(t, StoredFor(t))

C6_Rejects ==
    (\E t \in Handlers : /\ tasks[t].status # PRECONDITION_FAILED
                         /\ tasks'[t].status = PRECONDITION_FAILED)
        => /\ sessions' = sessions
           /\ lock' = lock

C6_UnknownSession == []C6_Answers /\ [][C6_Rejects]_vars

\* Session "A" is set up and "B" is not; a prove under "B" was answered 412, and
\* a prove under "A" that arrived after that rejection is answered 200.
C6_Witness ==
    /\ DOMAIN sessions = {"A"}
    /\ \E t, u \in Handlers :
          /\ AnsweredProve(t) /\ tasks[t].session_id = "B"
          /\ tasks[t].status = PRECONDITION_FAILED
          /\ AnsweredProve(u) /\ tasks[u].session_id = "A"
          /\ tasks[u].prior_412
          /\ tasks[u].status = OK

(***************************************************************************)
(* C7.  Prove result: a prove under a session id with a stored setup,      *)
(* whose five masked vectors are as long as the stored base vectors, is    *)
(* answered with 200 and, for each slot x of h, l, a, b_g1, b_g2, with     *)
(* em_x = sum_i v_x[i] * bases_x[i] over the bases stored under that same  *)
(* session id, never those of another session.                             *)
(***************************************************************************)
C7_ProveResult ==
    \A t \in Handlers : (AnsweredProve(t) /\ tasks[t].used > 0 /\ Matching(t)) =>
        /\ tasks[t].status = OK
        /\ tasks[t].session = StoredFor(t)
        /\ ResponseOver(t, StoredFor(t))

\* Two sessions hold different keys, and a prove under one of them is answered
\* with MSMs that are not, in any slot, what the other session's bases give.
C7_Witness ==
    \E t \in Handlers :
        /\ AnsweredProve(t) /\ tasks[t].status = OK
        /\ DOMAIN sessions = SessionIds
        /\ \E other \in SessionIds \ {tasks[t].session_id} :
              \A x \in Slots :
                  ark_from_bytes(tasks[t].response[SlotIndex(x)]).val
                      # PlainMsm(BasesOf(sessions[other], x), MaskedOf(t, x).vals)

(***************************************************************************)
(* C8.  Length mismatch is an error value: Pedersen::commit returns        *)
(* LengthMismatch whenever the number of scalars differs from the number   *)
(* of generators (and an MSM when it does not), and a prove on a set-up    *)
(* session in which one of the five masked vectors is not as long as the   *)
(* corresponding stored base vector is answered with 400 and no MSM        *)
(* results.                                                                *)
(***************************************************************************)
\* commit on every pair of vectors of up to MaxN + 1 elements
C8_Commit ==
    \A n, m \in 0 .. (MaxN + 1) : \A g \in Vecs(G, n) : \A v \in Vecs(F, m) :
        /\ commit(g, v).ok <=> (n = m)
        /\ (n # m) => commit(g, v).err = "LengthMismatch"
        /\ (n = m) => commit(g, v).val = PlainMsm(g, v)

C8_LengthMismatch ==
    /\ (nreq = 0) => C8_Commit
    /\ \A t \in Handlers :
          (/\ AnsweredProve(t) /\ tasks[t].used > 0
           /\ \A x \in Slots : MaskedOf(t, x).ok
           /\ \E x \in Slots : VLen(MaskedOf(t, x).vals) # VLen(BasesOf(StoredFor(t), x))) =>
              /\ tasks[t].status = BAD_REQUEST
              /\ tasks[t].response = NoProveResponse
              /\ \E x \in Slots :
                    commit(BasesOf(StoredFor(t), x), MaskedOf(t, x).vals).err = "LengthMismatch"

\* A prove on a set-up session whose last vector alone, b_g2, is one scalar
\* longer than the stored bases, answered with 400.
C8_Witness ==
    \E t \in Handlers :
        /\ AnsweredProve(t) /\ tasks[t].used > 0
        /\ \A x \in Slots : MaskedOf(t, x).ok
        /\ \A x \in Slots \ {"b_g2"} :
              VLen(MaskedOf(t, x).vals) = VLen(BasesOf(StoredFor(t), x))
        /\ VLen(MaskedOf(t, "b_g2").vals) = VLen(StoredFor(t).b_g2_generators) + 1
        /\ tasks[t].status = BAD_REQUEST

(***************************************************************************)
(* C9.  Session id collisions overwrite: once setups have inserted under   *)
(* the same session id, the stored entry is the five base vectors of the   *)
(* latest of them and nothing of an earlier one, and a prove that arrived  *)
(* after a setup returned uses the bases of that setup or of one inserted  *)
(* after it, never those of an earlier one.                                *)
(***************************************************************************)
C9_Overwrite ==
    /\ \A sid \in SessionIds :
          Len(ins_log[sid]) > 0 =>
              /\ sid \in DOMAIN sessions
              /\ sessions[sid] = ins_log[sid][Len(ins_log[sid])]
              /\ \A x \in Slots :
                    BasesOf(sessions[sid], x) = BasesOf(ins_log[sid][Len(ins_log[sid])], x)
    /\ \A t \in Handlers :
          (WellFormedProve(t) /\ tasks[t].used > 0) =>
              /\ tasks[t].used >= tasks[t].start_ret
              /\ tasks[t].session = StoredFor(t)
              /\ (tasks[t].pc = "done" /\ tasks[t].status = OK) =>
                     ResponseOver(t, StoredFor(t))

\* Two setups with different keys were inserted under one session id; a prove
\* that arrived after the second returned is answered with the MSMs over the
\* second's bases, which in every slot are not what the first's bases give.
C9_Witness ==
    \E t \in Handlers :
        /\ AnsweredProve(t) /\ tasks[t].status = OK
        /\ tasks[t].start_ret = 2 /\ tasks[t].used = 2
        /\ \A x \in Slots :
              /\ BasesOf(ins_log[tasks[t].session_id][1], x)
                     # BasesOf(ins_log[tasks[t].session_id][2], x)
              /\ ark_from_bytes(tasks[t].response[SlotIndex(x)]).val
                     # PlainMsm(BasesOf(ins_log[tasks[t].session_id][1], x), MaskedOf(t, x).vals)

(***************************************************************************)
(* C10.  Sessions are never evicted: in every interleaving of setup and    *)
(* prove requests, no step removes a session id from the session map;      *)
(* once a setup for session id s has returned 200, s is in the map; and a  *)
(* prove on s that deserializes and arrived after that is not answered     *)
(* with 412.                                                               *)
(***************************************************************************)
C10_Stored ==
    /\ \A sid \in SessionIds : returned[sid] > 0 => sid \in DOMAIN sessions
    /\ \A t \in Handlers :
          (WellFormedProve(t) /\ tasks[t].start_ret > 0) =>
              tasks[t].status # PRECONDITION_FAILED

C10_Kept == DOMAIN sessions \subseteq DOMAIN sessions'

C10_NeverEvicted == []C10_Stored /\ [][C10_Kept]_vars

\* Session "A" was set up, then session "B"; a prove under "A" that arrived
\* when both setups had returned was answered 200.
C10_Witness ==
    \E t \in Handlers :
        /\ AnsweredProve(t) /\ tasks[t].session_id = "A"
        /\ tasks[t].start_ret > 0
        /\ returned["B"] > 0
        /\ nreq = 3
        /\ tasks[t].status = OK

(***************************************************************************)
(* C11.  Readers-writer discipline on the session map: a setup inserts     *)
(* only while it holds the lock for writing and a prove reads the map only *)
(* while it holds it for reading; in no state does a setup hold the write  *)
(* guard while another setup holds it or while a prove holds a read guard, *)
(* so the session a prove is computing over is the one the map holds; two  *)
(* proves may hold read guards at the same time.                           *)
(***************************************************************************)
\* The handlers that hold the write guard, and those that hold a read guard.
Writing == {t \in Handlers : tasks[t].kind = "setup" /\ tasks[t].pc = "locked"}
Reading == {t \in Handlers : tasks[t].kind = "prove" /\ tasks[t].pc = "locked"}

C11_Exclusive ==
    /\ Cardinality(Writing) <= 1
    /\ Writing # {} => Reading = {}
    /\ \A t \in Handlers : (t \in Writing) <=> (lock.writer = t)
    /\ lock.readers = Reading
    /\ \A t \in Reading : /\ tasks[t].session_id \in DOMAIN sessions
                           /\ sessions[tasks[t].session_id] = tasks[t].session

C11_Access ==
    /\ sessions' # sessions =>
          \E t \in Handlers : /\ lock.writer = 0 /\ lock.readers = {}
                               /\ lock'.writer = t /\ lock'.readers = {}
                               /\ tasks[t].kind = "setup"
                               /\ sessions' = HashMap_insert(sessions, tasks[t].session_id,
                                                             tasks[t].session)
    /\ \A t \in Handlers :
          (tasks[t].kind = "prove" /\ tasks[t].pc = "wait" /\ tasks'[t].pc # "wait") =>
              /\ lock.writer = 0 /\ lock'.writer = 0
              /\ sessions' = sessions

C11_RwLock == []C11_Exclusive /\ [][C11_Access]_vars

\* Two proves hold read guards at the same time, a session being stored.
C11_Witness ==
    /\ lock.readers = Handlers
    /\ lock.writer = 0
    /\ \A t \in Handlers : tasks[t].kind = "prove" /\ tasks[t].pc = "locked"

(***************************************************************************)
(* C12.  Client ordering: the client posts a prove only after its setup    *)
(* under the same session id was posted and send_setup returned Ok on a    *)
(* success status; when the setup is answered with a status that is not a  *)
(* success, or gets no answer, main returns the error and no prove is ever *)
(* posted.                                                                 *)
(***************************************************************************)
\* The positions of cl_posted that hold a request to path.
PostedAt(path) == {k \in 1 .. Len(cl_posted) : cl_posted[k].path = path}

C12_Order ==
    /\ \A k \in PostedAt("/prove") :
          /\ \E j \in PostedAt("/setup") :
                j < k /\ cl_posted[j].session_id = cl_posted[k].session_id
          /\ cl_setup.called /\ cl_setup.ok
          /\ cl_setup.arrived /\ cl_setup.status >= 200 /\ cl_setup.status <= 299
    /\ (cl_setup.called /\ (~cl_setup.arrived \/ cl_setup.status < 200 \/ cl_setup.status > 299)) =>
          /\ PostedAt("/prove") = {}
          /\ cl_pc = "exit" /\ cl_exit = "err"
          /\ ~cl_prove.called
    /\ Len(cl_posted) <= 2

C12_Posts ==
    (cl_posted' # cl_posted /\ cl_posted'[Len(cl_posted')].path = "/prove") =>
        /\ cl_setup.called /\ cl_setup.ok
        /\ cl_posted = <<[path |-> "/setup", session_id |-> cl_session_id]>>
        /\ cl_posted'[2].session_id = cl_session_id

C12_ClientOrdering == []C12_Order /\ [][C12_Posts]_vars

\* The setup was answered with 204, a success that is not 200, and the prove
\* was posted after it under the same session id.
C12_Witness ==
    /\ cl_setup.called /\ cl_setup.status = 204
    /\ Len(cl_posted) = 2
    /\ cl_posted[2].path = "/prove"
    /\ cl_posted[1].session_id = cl_posted[2].session_id

(***************************************************************************)
(* C13.  Vector wire round trip: for every vector v of at most MAX_VEC_LEN *)
(* elements, ark_vec_from_bytes(ark_vec_to_bytes(v)) succeeds and returns  *)
(* exactly v: as many elements, the same elements, in the same order.      *)
(***************************************************************************)
\* A vector was serialized and the bytes deserialized.
WireTripped == wire_pc = "done" /\ wire_in.kind \in {"vec", "repeat"}

\* The number of elements of the vector that was serialized.
WireInLen == IF wire_in.kind = "repeat" THEN wire_in.vec.len ELSE VLen(wire_in.vec)

\* The vector came back as it went in.
WireSame ==
    /\ wire_out.ok
    /\ wire_out.vals = wire_in.vec
    /\ wire_in.kind = "vec" =>
          /\ VLen(wire_out.vals) = VLen(wire_in.vec)
          /\ \A i \in DOMAIN wire_in.vec : wire_out.vals[i] = wire_in.vec[i]
    /\ wire_in.kind = "repeat" => wire_out.read = wire_in.vec.len

C13_RoundTrip == (WireTripped /\ WireInLen <= MAX_VEC_LEN) => WireSame

\* The claim as it was made: for every vector, of any length.
C13_Original == WireTripped => WireSame

\* A vector of MaxLen elements that are not all the same, and not the same read
\* backwards, came back as it went in.
C13_Witness ==
    /\ WireTripped /\ wire_in.kind = "vec"
    /\ VLen(wire_in.vec) >= 2
    /\ wire_in.vec[0] # wire_in.vec[VLen(wire_in.vec) - 1]
    /\ wire_in.vec[0] # 0
    /\ WireSame

(***************************************************************************)
(* C14.  Oversize rejection: ark_vec_from_bytes returns an error, having   *)
(* read no element, whenever the length prefix is greater than             *)
(* MAX_VEC_LEN = 2^24, whatever follows the prefix; a prefix of at most    *)
(* 2^24 is never the reason for an error, 2^24 itself included: such an    *)
(* input fails only when an element is missing or is no element.           *)
(***************************************************************************)
\* The bytes deserialized hold a length prefix, and its value.
WireHasPrefix == wire_pc = "done" /\ Len(wire_in.bytes) >= 1
WirePrefix == wire_in.bytes[1]

\* The words after the prefix hold WirePrefix elements.
WireElementsThere ==
    \/ wire_in.kind = "repeat"
    \/ /\ Len(wire_in.bytes) >= WirePrefix + 1
       /\ \A i \in 2 .. (WirePrefix + 1) : wire_in.bytes[i] < FieldOrder

C14_Oversize ==
    WireHasPrefix =>
        /\ WirePrefix > MAX_VEC_LEN =>
              /\ ~wire_out.ok
              /\ wire_out.err = "exceeds maximum"
              /\ wire_out.read = 0
        /\ WirePrefix <= MAX_VEC_LEN =>
              /\ wire_out.err # "exceeds maximum"
              /\ wire_out.ok <=> WireElementsThere
              /\ ~wire_out.ok => wire_out.err = "failed to deserialize element"

\* Bytes with a prefix of 2^24 + 1 and two elements after it were rejected with
\* no element read.
C14_Witness ==
    /\ WireHasPrefix /\ wire_in.kind = "bytes"
    /\ WirePrefix = MAX_VEC_LEN + 1
    /\ Len(wire_in.bytes) = 3
    /\ wire_in.bytes[2] < FieldOrder /\ wire_in.bytes[3] < FieldOrder
    /\ ~wire_out.ok /\ wire_out.read = 0

(***************************************************************************)
(* C15.  LPN parameter table: for every n, get_lpn_params(n) returns       *)
(* big_n = 4n and t = min(raw(n), max(1, 4n)), raw being the step function *)
(* 29 for n <= 2^10, then 33, 38, 43, 48, 54, 60, 67, 74, 82, 90, 99, 108  *)
(* and 118 for n <= 2^11, ..., 2^23, and 128 above 2^23; a boundary        *)
(* n = 2^k takes the value of the step it closes.                          *)
(***************************************************************************)
\* The values of the steps that end at 2^10, 2^11, ..., 2^23, as the table gives them.
TableSteps == <<29, 33, 38, 43, 48, 54, 60, 67, 74, 82, 90, 99, 108, 118>>

\* raw(n): the value of the first step that n is within, 128 beyond the last.
TableRaw(n) ==
    LET within == {j \in 1 .. Len(TableSteps) : n <= 2 ^ (9 + j)}
    IN  IF within = {} THEN 128
        ELSE TableSteps[CHOOSE j \in within : \A i \in within : j <= i]

C15_Table ==
    \A c \in 1 .. Len(lpn_calls) :
        LET n == lpn_calls[c].n
            p == lpn_calls[c].params
            cap == IF 4 * n >= 1 THEN 4 * n ELSE 1
        IN  /\ p.n = n
            /\ p.big_n = 4 * n
            /\ p.t = (IF TableRaw(n) <= cap THEN TableRaw(n) ELSE cap)
            /\ \A j \in 1 .. Len(TableSteps) : n = 2 ^ (9 + j) => p.t = TableSteps[j]

\* get_lpn_params(2^23) returned the last step of the table, 118, and
\* get_lpn_params(2^23 + 1) returned 128.
C15_Witness ==
    /\ Len(lpn_calls) = 2
    /\ lpn_calls[1].n = 8388608 /\ lpn_calls[1].params.t = 118
    /\ lpn_calls[2].n = 8388609 /\ lpn_calls[2].params.t = 128

(***************************************************************************)
(* C16.  LPN parameter monotonicity: for all n1 <= n2,                     *)
(* get_lpn_params(n1).t <= get_lpn_params(n2).t, the small n for which t   *)
(* is clamped to max(1, 4n) included.                                      *)
(***************************************************************************)
C16_Monotone ==
    Len(lpn_calls) = 2 =>
        /\ lpn_calls[1].n <= lpn_calls[2].n => lpn_calls[1].params.t <= lpn_calls[2].params.t
        /\ lpn_calls[2].n <= lpn_calls[1].n => lpn_calls[2].params.t <= lpn_calls[1].params.t

\* n1 = 0, where the clamp gives t = 1 with N = 0, and a clamped n2 above it with
\* a larger t.
C16_Witness ==
    /\ Len(lpn_calls) = 2
    /\ lpn_calls[1].n = 0 /\ lpn_calls[1].params.t = 1
    /\ lpn_calls[2].n > 0 /\ lpn_calls[2].params.t = 4 * lpn_calls[2].n
    /\ lpn_calls[2].params.t < 29

(***************************************************************************)
(* C17.  Transpose duality: for every TOperator (any two permutations of   *)
(* 0 .. 4n-1), every sparse vector e over 4n positions and every vector g  *)
(* of n group elements, the inner product of multiply_sparse(e) with g     *)
(* equals that of e with multiply_transpose_group(g).                      *)
(***************************************************************************)
\* <e, h>: the sum over the entries (i, v) of e of v * h[i]
RECURSIVE SparseDot(_, _, _)
SparseDot(entries, h, k) ==
    IF k = 0 THEN 0
    ELSE (SparseDot(entries, h, k - 1) + entries[k][2] * h[entries[k][1]]) % FieldOrder

C17_Duality ==
    raa_pc = "done" =>
        /\ VLen(raa_te) = raa_op.n
        /\ VLen(raa_ttg) = raa_op.big_n
        /\ PlainMsm(raa_g, raa_te) = SparseDot(raa_e, raa_ttg, Len(raa_e))

\* Two different permutations that are not their own inverses, two entries
\* at different indices, and an inner product that is not zero.
C17_Witness ==
    /\ raa_pc = "done"
    /\ raa_op.perm_p # raa_op.perm_q
    /\ raa_op.perm_p # raa_op.inv_perm_p
    /\ raa_op.perm_q # raa_op.inv_perm_q
    /\ Len(raa_e) = 2 /\ raa_e[1][1] # raa_e[2][1]
    /\ PlainMsm(raa_g, raa_te) # 0


(***************************************************************************)
(* C18.  Groth16 assembly with an honest server: after client_encrypt,     *)
(* server_evaluate and client_decrypt on scalar vectors as long as their   *)
(* generators, the proof is the one an unaided prover computes from the    *)
(* full assignment with the same r and s:                                  *)
(*   pi_A = alpha + a_pub + a_wit + r * delta_G1,                          *)
(*   pi_B = beta_G2 + b2_pub + b2_wit + s * delta_G2,                      *)
(*   pi_C = h_msm + l_msm + s * pi_A                                       *)
(*          + r * (beta_G1 + b1_pub + b1_wit + s * delta_G1)               *)
(*          - (r * s) * delta_G1,                                          *)
(* where x_pub = x_query[0] + sum_i pub[i] * x_query[i + 1] over           *)
(* pub = assignment[1 .. num_pub], and x_wit = sum_j witness[j] *          *)
(* x_query[num_pub + j].                                                   *)
(***************************************************************************)
\* sum over j < k of scalars[j] * query[from + j]
RECURSIVE QuerySum(_, _, _, _)
QuerySum(query, scalars, from, k) ==
    IF k = 0 THEN 0
    ELSE (QuerySum(query, scalars, from, k - 1)
            + scalars[k - 1] * query[from + k - 1]) % FieldOrder

\* the public inputs and the witness, read off the full assignment
PubOf(st) == [i \in 0 .. (st.num_instance_variables - 2) |-> st.full_assignment[i + 1]]
WitOf(st) ==
    [j \in 0 .. (VLen(st.full_assignment) - st.num_instance_variables - 1) |->
        st.full_assignment[st.num_instance_variables + j]]

\* the quotient of the assignment the client holds
QuotientOf(st) ==
    witness_map([instance_assignment |->
                     [i \in 0 .. (st.num_instance_variables - 1) |-> st.full_assignment[i]],
                 witness_assignment |-> WitOf(st)], MaxN)

XPub(query, st) ==
    (query[0] + QuerySum(query, PubOf(st), 1, st.num_instance_variables - 1)) % FieldOrder
XWit(query, st) == QuerySum(query, WitOf(st), st.num_instance_variables, VLen(WitOf(st)))

\* what an unaided prover computes from the proving key and the assignment
UnaidedProof(pk, st) ==
    LET r == st.r
        s == st.s
        h_msm == QuerySum(pk.h_query, QuotientOf(st), 0, VLen(pk.h_query))
        l_msm == QuerySum(pk.l_query, WitOf(st), 0, VLen(pk.l_query))
        pi_A  == (pk.vk.alpha_g1 + XPub(pk.a_query, st) + XWit(pk.a_query, st)
                    + r * pk.delta_g1) % FieldOrder
        pi_B  == (pk.vk.beta_g2 + XPub(pk.b_g2_query, st) + XWit(pk.b_g2_query, st)
                    + s * pk.vk.delta_g2) % FieldOrder
        pi_C  == (h_msm + l_msm + s * pi_A
                    + r * (pk.beta_g1 + XPub(pk.b_g1_query, st) + XWit(pk.b_g1_query, st)
                             + s * pk.delta_g1)
                    + FieldOrder * FieldOrder * FieldOrder - (r * s) * pk.delta_g1) % FieldOrder
    IN  [a |-> pi_A, b |-> pi_B, c |-> pi_C]

\* every scalar vector is as long as the generators it meets
LengthsMatch(pk, st) ==
    /\ VLen(QuotientOf(st)) = VLen(pk.h_query)
    /\ VLen(WitOf(st)) = VLen(pk.l_query)
    /\ VLen(WitOf(st)) = VLen(pk.a_query) - st.num_instance_variables
    /\ VLen(WitOf(st)) = VLen(pk.b_g1_query) - st.num_instance_variables
    /\ VLen(WitOf(st)) = VLen(pk.b_g2_query) - st.num_instance_variables

C18_Assembly ==
    (g16_stage = "decrypted" /\ LengthsMatch(g16_key.pk, g16_state)) =>
        /\ g16_result.ok
        /\ g16_result.proof = UnaidedProof(g16_key.pk, g16_state)

\* A finished proof of a nonzero x with nonzero r and s, whose witness went to
\* the server masked and whose public input y counts in the public sums.
C18_Witness ==
    /\ g16_stage = "decrypted"
    /\ LengthsMatch(g16_key.pk, g16_state)
    /\ g16_state.r # 0 /\ g16_state.s # 0
    /\ WitOf(g16_state)[0] # 0
    /\ PubOf(g16_state)[0] # 0
    /\ g16_request.v_l # WitOf(g16_state)
    /\ g16_key.pk.a_query[1] # 0 /\ g16_key.pk.delta_g1 # 0
    /\ g16_result.proof.c # 0


(***************************************************************************)
(* C19.  The malicious and the semi-honest pipeline assemble the same      *)
(* proof: with the same r, s, assignment and unmasked MSM values, whenever *)
(* all five checks pass malicious_client_decrypt returns the pi_A, pi_B    *)
(* and pi_C that client_decrypt returns.                                   *)
(***************************************************************************)
\* The semi-honest client's state and response with the same r, s and assignment
\* and the main query of every slot: they unmask to the same five MSM values.
MainState(st) ==
    [r |-> st.r, s |-> st.s,
     lpn_h |-> st.ds_h.lpn, lpn_l |-> st.ds_l.lpn, lpn_a |-> st.ds_a.lpn,
     lpn_b_g1 |-> st.ds_b_g1.lpn, lpn_b_g2 |-> st.ds_b_g2.lpn,
     num_instance_variables |-> st.num_instance_variables,
     full_assignment |-> st.full_assignment]
MainResponse(response) ==
    [em_h |-> response.em_h, em_l |-> response.em_l, em_a |-> response.em_a,
     em_b_g1 |-> response.em_b_g1, em_b_g2 |-> response.em_b_g2]

C19_SameProof ==
    (g16_stage = "decrypted" /\ \A x \in Slots : SlotCheckPasses(x)) =>
        /\ g16_result.ok
        /\ g16_result.proof =
              client_decrypt(g16_key, MainResponse(g16_response), MainState(g16_state))

\* All five checks passed on a response the server had changed in a way the
\* check cannot see, for a nonzero x with nonzero r and s: the MSM values both
\* pipelines assemble are not the honest ones.
C19_Witness ==
    /\ g16_stage = "decrypted"
    /\ \A x \in Slots : SlotCheckPasses(x)
    /\ g16_result.ok
    /\ g16_delta["l"].em # 0
    /\ g16_state.r # 0 /\ g16_state.s # 0
    /\ g16_state.full_assignment[g16_state.num_instance_variables] # 0
    /\ g16_key.pk.delta_g1 # 0


(***************************************************************************)
(* C20.  The structure of error_vec: for size >= t >= 1, whatever the rng  *)
(* draws, error_vec(size, t) returns exactly t entries, the k-th (from 0)  *)
(* at an index in [k * (size div t), (k + 1) * (size div t)); for t = 0 or *)
(* size = 0 it returns no entries.                                         *)
(***************************************************************************)
C20_ErrorVec ==
    \A i \in 1 .. Len(sparse_calls) :
        LET c == sparse_calls[i]
            chunk == c.size \div c.t
        IN  /\ (c.t = 0 \/ c.size = 0) =>
                  /\ ~c.out.panicked
                  /\ c.out.entries = << >>
            /\ (c.size >= c.t /\ c.t >= 1) =>
                  /\ ~c.out.panicked
                  /\ Len(c.out.entries) = c.t
                  /\ \A k \in 0 .. (c.t - 1) :
                        /\ c.out.entries[k + 1][1] >= k * chunk
                        /\ c.out.entries[k + 1][1] < (k + 1) * chunk

\* Three chunks of two positions and a tail no chunk covers; the entry of the
\* last chunk is not at the chunk's first position.
C20_Witness ==
    \E i \in 1 .. Len(sparse_calls) :
        LET c == sparse_calls[i]
        IN  /\ c.t = 3 /\ c.size = 7
            /\ Len(c.out.entries) = 3
            /\ c.out.entries[3][1] = 5
            /\ c.out.entries[1][1] = 1


(***************************************************************************)
(* C21.  Error-vector values are nonzero: whatever the rng draws, every    *)
(* entry value error_vec places in the noise vector is a nonzero field     *)
(* element.                                                                *)
(***************************************************************************)
C21_NonzeroValues ==
    \A i \in 1 .. Len(sparse_calls) :
        \A k \in 1 .. Len(sparse_calls[i].out.entries) :
            sparse_calls[i].out.entries[k][2] # 0


(***************************************************************************)
(* C22.  The shape of a Dual-LPN instance: for parameters built by new     *)
(* over n generators, the instance encrypt returns has a noise vector of   *)
(* exactly params.t entries over N = 4n positions, a mask of length n      *)
(* equal to T * noise, and a masked vector v with v[i] = z[i] + mask[i]    *)
(* for all i < n.  As stated, for every n >= 0; this holds for n >= 1,     *)
(* while for n = 0 the noise vector is empty though params.t is 1.         *)
(***************************************************************************)
\* T * e written out: e as a dense vector, a suffix sum, the permutation q, a
\* suffix sum, the permutation p, and the sums of four neighbours
RECURSIVE EntriesAt(_, _, _)
EntriesAt(entries, k, j) ==
    IF k = 0 THEN 0
    ELSE (EntriesAt(entries, k - 1, j) + (IF entries[k][1] = j THEN entries[k][2] ELSE 0))
            % FieldOrder

RECURSIVE TailSum(_, _, _)
TailSum(v, j, big_n) == IF j >= big_n THEN 0 ELSE (v[j] + TailSum(v, j + 1, big_n)) % FieldOrder

TTimes(op, entries) ==
    LET big_n == op.big_n
        e  == Collect([j \in 0 .. (big_n - 1) |-> EntriesAt(entries, Len(entries), j)])
        a1 == Collect([j \in 0 .. (big_n - 1) |-> TailSum(e, j, big_n)])
        m1 == Collect([j \in 0 .. (big_n - 1) |-> a1[op.perm_q[j]]])
        a2 == Collect([j \in 0 .. (big_n - 1) |-> TailSum(m1, j, big_n)])
        m2 == Collect([j \in 0 .. (big_n - 1) |-> a2[op.perm_p[j]]])
    IN  Collect([i \in 0 .. (op.n - 1) |->
            (m2[4 * i] + m2[4 * i + 1] + m2[4 * i + 2] + m2[4 * i + 3]) % FieldOrder])

\* encrypt has just returned
Encrypted == stage = "encrypted"

\* what the claim says of the instance apart from the number of noise entries
C22_MaskShape ==
    LET n   == VLen(params.generators)
        lpn == dstate.lpn
        te  == TTimes(params.t_operator, lpn.noise.entries)
    IN  /\ params.t_operator.n = n
        /\ lpn.noise.size = 4 * n
        /\ \A k \in 1 .. Len(lpn.noise.entries) : lpn.noise.entries[k][1] \in 0 .. (4 * n - 1)
        /\ DOMAIN lpn.lpn_vector = 0 .. (n - 1)
        /\ \A i \in 0 .. (n - 1) : lpn.lpn_vector[i] = te[i]
        /\ DOMAIN enc.masked = 0 .. (n - 1)
        /\ \A i \in 0 .. (n - 1) : enc.masked[i] = (witness[i] + lpn.lpn_vector[i]) % FieldOrder

FirstEntries(e, k) == SubSeq(e, 1, k)
LastEntries(e, k) == SubSeq(e, k + 1, Len(e))

C23_Linearity ==
    raa_pc = "sparse" =>
        \A k \in 0 .. Len(raa_e) :
            \E r1 \in {multiply_sparse(raa_op, FirstEntries(raa_e, k))} :
            \E r2 \in {multiply_sparse(raa_op, LastEntries(raa_e, k))} :
                /\ DOMAIN raa_te = 0 .. (raa_op.n - 1)
                /\ \A i \in 0 .. (raa_op.n - 1) : raa_te[i] = (r1[i] + r2[i]) % FieldOrder

\* Two entries at one index whose values do not cancel, and a product that is
\* not zero.
C23_Witness ==
    /\ raa_pc = "sparse"
    /\ raa_op.n = MaxN
    /\ Len(raa_e) = 2
    /\ raa_e[1][1] = raa_e[2][1]
    /\ (raa_e[1][2] + raa_e[2][2]) % FieldOrder # 0
    /\ \E i \in 0 .. (raa_op.n - 1) : raa_te[i] # 0
    /\ raa_op.perm_p # raa_op.perm_q


(***************************************************************************)
(* C24.  The permutation invariant: for every n and whatever the rng       *)
(* draws, TOperator::rand(n) yields perm_p and perm_q that are bijections  *)
(* on 0 .. 4n-1, each index appearing exactly once, and the inverses it    *)
(* stores satisfy inv_perm_p[perm_p[i]] = i and inv_perm_q[perm_q[i]] = i  *)
(* for every i.                                                            *)
(***************************************************************************)
\* perm lists every index below big_n exactly once
IsBijection(perm, big_n) ==
    /\ DOMAIN perm = 0 .. (big_n - 1)
    /\ \A v \in 0 .. (big_n - 1) : Cardinality({i \in 0 .. (big_n - 1) : perm[i] = v}) = 1

C24_Permutations ==
    raa_pc = "rand" =>
        /\ raa_op.big_n = 4 * raa_op.n
        /\ IsBijection(raa_op.perm_p, raa_op.big_n)
        /\ IsBijection(raa_op.perm_q, raa_op.big_n)
        /\ DOMAIN raa_op.inv_perm_p = 0 .. (raa_op.big_n - 1)
        /\ DOMAIN raa_op.inv_perm_q = 0 .. (raa_op.big_n - 1)
        /\ \A i \in 0 .. (raa_op.big_n - 1) :
              /\ raa_op.inv_perm_p[raa_op.perm_p[i]] = i
              /\ raa_op.inv_perm_q[raa_op.perm_q[i]] = i

\* Two different shuffles of 4 * MaxN indices, neither the identity nor its own
\* inverse.
C24_Witness ==
    /\ raa_pc = "rand"
    /\ raa_op.n = MaxN
    /\ raa_op.perm_p # raa_op.perm_q
    /\ raa_op.perm_p # raa_op.inv_perm_p
    /\ raa_op.perm_q # raa_op.inv_perm_q
    /\ \E i \in 0 .. (raa_op.big_n - 1) : raa_op.perm_p[i] # i


(***************************************************************************)
(* C25.  The parallel suffix sum equals the sequential one: for every      *)
(* input of PARALLEL_THRESHOLD elements or more and every number of worker *)
(* threads >= 1, the chunked branch of accumulate_inplace completes        *)
(* without an out-of-range chunk index and leaves v[i] = sum of v[k] over  *)
(* k >= i, as the sequential branch does.                                  *)
(***************************************************************************)
\* the suffix sum at index i of n copies of elem
SuffixOfCopies(elem, n, i) == ((n - i) * elem) % FieldOrder

C25_ParallelEqualsSequential ==
    \A k \in 1 .. Len(acc_calls) :
        LET c == acc_calls[k]
        IN  /\ ~c.out.panicked
            /\ \A i \in DOMAIN c.out.at : c.out.at[i] = SuffixOfCopies(c.elem, c.n, i)


(***************************************************************************)
(* C26.  pad_or_trim: for every vector v and target length L the result    *)
(* has exactly L elements, its first min(|v|, L) elements are those of v   *)
(* in order, and every element at a position >= |v| is zero.               *)
(***************************************************************************)
C26_PadOrTrim ==
    \A k \in 1 .. Len(pad_calls) :
        LET c == pad_calls[k]
            shorter == IF VLen(c.v) <= c.target_len THEN VLen(c.v) ELSE c.target_len
        IN  /\ DOMAIN c.out = 0 .. (c.target_len - 1)
            /\ \A i \in 0 .. (shorter - 1) : c.out[i] = c.v[i]
            /\ \A i \in 0 .. (c.target_len - 1) : i >= VLen(c.v) => c.out[i] = 0

\* A vector of two elements that are not zero, filled up to four.
C26_Witness ==
    \E k \in 1 .. Len(pad_calls) :
        LET c == pad_calls[k]
        IN  /\ VLen(c.v) = 2 /\ c.target_len = 4
            /\ c.v[0] # 0 /\ c.v[1] # 0
            /\ c.out[1] = c.v[1] /\ c.out[3] = 0


(***************************************************************************)
(* C27.  Witness hiding of the masked vector: for any two witnesses z1, z2 *)
(* of the same length n under the same public parameters, the set of       *)
(* masked vectors v = z + T*e that encrypt can output, over all noise      *)
(* draws e of error_vec(4n, t), is the same for z1 as for z2.  The sets    *)
(* are z1 + M and z2 + M for the one set M of masks T*e, and they are      *)
(* equal for all z1, z2 only if M is closed under every translation, that  *)
(* is, only if M is all of F^n.  M has at most as many elements as         *)
(* error_vec has draws: chunk_size indices times |F| values in each of the *)
(* t chunks.  So the claim requires (chunk_size * |F|)^t >= |F|^n for      *)
(* every n >= 1 with the t of get_lpn_params, stated here in powers of     *)
(* |F|.                                                                    *)
(***************************************************************************)
\* The least k with q^k >= x.
RECURSIVE PowerAtLeast(_, _, _)
PowerAtLeast(q, x, k) == IF q ^ k >= x THEN k ELSE PowerAtLeast(q, x, k + 1)

\* An exponent d with (number of draws of error_vec(big_n, t)) <= |F|^d:
\* each of the t chunks gives chunk_size * |F| <= |F|^k pairs of index and value.
DrawsExponent(p) ==
    LET chunk_size == p.big_n \div p.t
    IN  PowerAtLeast(FieldOrder, chunk_size * FieldOrder, 0) * p.t

C27_WitnessHiding ==
    \A c \in 1 .. Len(lpn_calls) :
        LET n == lpn_calls[c].n
            p == lpn_calls[c].params
        IN  n >= 1 => DrawsExponent(p) >= n


(***************************************************************************)
(* C28.  Frame of the session map: the map changes only through a setup    *)
(* request that returns 200, and that step changes exactly the entry of    *)
(* the request's own session id, to the five vectors the request carries;  *)
(* a setup that returns 400 (malformed envelope, request or base vector)   *)
(* and every prove request, whatever its outcome, leave the whole map      *)
(* unchanged.                                                              *)
(***************************************************************************)
\* The entry of the map under sid, or none.
EntryOf(map, sid) == IF sid \in DOMAIN map THEN <<map[sid]>> ELSE << >>

\* A setup that has been answered: with 200 exactly when its body is well-formed
\* and it has inserted, with 400 otherwise; no prove has inserted.
C28_Answers ==
    \A t \in Handlers :
        /\ (tasks[t].kind = "setup" /\ tasks[t].pc = "done") =>
              /\ tasks[t].status \in {OK, BAD_REQUEST}
              /\ (tasks[t].status = OK) <=> (handle_setup_parse(tasks[t].body).status = OK)
              /\ (tasks[t].status = BAD_REQUEST) => (tasks[t].used = 0)
        /\ (tasks[t].kind = "setup" /\ tasks[t].pc = "locked") =>
              handle_setup_parse(tasks[t].body).status = OK

\* A step that changes the map is the insert of a setup whose body is
\* well-formed, and it changes the entry of that setup's session id alone.
C28_Changes ==
    (sessions' # sessions) =>
        \E t \in Handlers :
            /\ tasks[t].kind = "setup" /\ tasks[t].pc = "wait" /\ tasks'[t].pc = "locked"
            /\ handle_setup_parse(tasks[t].body).status = OK
            /\ \A u \in Handlers \ {t} : tasks'[u] = tasks[u]
            /\ \A sid \in SessionIds \ {tasks[t].session_id} :
                  EntryOf(sessions', sid) = EntryOf(sessions, sid)
            /\ EntryOf(sessions', tasks[t].session_id)
                   = <<handle_setup_parse(tasks[t].body).session>>

C28_SessionFrame == []C28_Answers /\ [][C28_Changes]_vars

\* Session "A" alone is stored, by a setup that returned 200; a setup under "A"
\* whose fifth base vector is malformed has been answered with 400 and a
\* prove with 200, and the entry of "A" is still what the first setup carried.
C28_Witness ==
    /\ DOMAIN sessions = {"A"}
    /\ Len(ins_log["A"]) = 1 /\ returned["A"] = 1
    /\ sessions["A"] = ins_log["A"][1]
    /\ \E t, u \in Handlers :
          /\ tasks[t].kind = "setup" /\ tasks[t].pc = "done"
          /\ deserialize_request(deserialize_envelope(tasks[t].body).request).ok
          /\ tasks[t].status = BAD_REQUEST
          /\ AnsweredProve(u) /\ tasks[u].status = OK


(***************************************************************************)
(* C29.  Error precedence in prove: a request whose envelope or inner      *)
(* ProveRequest does not deserialize is answered with 400 even if its      *)
(* session id is unknown; a request whose envelope and ProveRequest do     *)
(* deserialize but whose session id is unknown is answered with 412 even   *)
(* if its vector blobs are malformed, oversize or of the wrong length; and *)
(* 400 for a bad vector blob or a length mismatch is returned only when    *)
(* the session exists.                                                     *)
(***************************************************************************)
\* Handler t has answered a prove request.
ProveDone(t) == tasks[t].kind = "prove" /\ tasks[t].pc = "done"

C29_ErrorPrecedence ==
    \A t \in Handlers : ProveDone(t) =>
        /\ ~WellFormedProve(t) => tasks[t].status = BAD_REQUEST
        /\ (WellFormedProve(t) /\ tasks[t].used = 0) =>
               tasks[t].status = PRECONDITION_FAILED
        /\ (WellFormedProve(t) /\ tasks[t].status = BAD_REQUEST) =>
               /\ tasks[t].used > 0
               /\ tasks[t].session_id \in DOMAIN sessions
               /\ ~Matching(t)

\* No session is stored.  A prove whose envelope names "A" and whose request is
\* no ProveRequest was answered with 400, and a prove under "A" whose envelope
\* and request deserialize and whose v_l has a length prefix over MAX_VEC_LEN
\* was answered with 412.
C29_Witness ==
    /\ DOMAIN sessions = {}
    /\ \E t, u \in Handlers :
          /\ ProveDone(t) /\ tasks[t].body = <<"A", << >> >>
          /\ tasks[t].status = BAD_REQUEST
          /\ ProveDone(u) /\ WellFormedProve(u) /\ tasks[u].session_id = "A"
          /\ tasks[u].body[2][SlotIndex("l")] = <<MAX_VEC_LEN + 1>>
          /\ ~MaskedOf(u, "l").ok
          /\ tasks[u].status = PRECONDITION_FAILED


(***************************************************************************)
(* C30.  Encrypt never trips the sampler's precondition: for every         *)
(* generator count n >= 0, the t that EmsmPublicParams::new stores, which  *)
(* is get_lpn_params(n).t, satisfies t <= 4n or 4n = 0, so the call        *)
(* error_vec(4n, t) that encrypt makes through DualLPNInstance::sample     *)
(* with the big_n = 4n of TOperator::rand(n) never fails its assertion     *)
(* size >= t and never draws from an empty chunk: floor(4n / t) >= 1       *)
(* whenever 4n > 0.  error_vec itself is run on the lengths of the first   *)
(* step of the table, n <= 1024, where the clamp acts.                     *)
(***************************************************************************)
C30_SamplerPrecondition ==
    \A c \in 1 .. Len(lpn_calls) :
        LET n     == lpn_calls[c].n
            t     == lpn_calls[c].params.t
            big_n == 4 * n
        IN  /\ t >= 1
            /\ t <= big_n \/ big_n = 0
            /\ big_n > 0 => big_n \div t >= 1
            /\ n <= 1024 =>
                  \A seed \in Seeds :
                      LET e == error_vec(big_n, t, seed_from_u64(seed))
                      IN  /\ ~e.panicked
                          /\ Len(e.entries) = (IF big_n = 0 THEN 0 ELSE t)

\* get_lpn_params was called on 0, where t = 1 and error_vec(0, 1) returns the
\* empty vector, and on 7, the largest n that is clamped: t = 28 = 4n, chunks
\* of one index, 28 entries.
C30_Witness ==
    /\ Len(lpn_calls) = 2
    /\ lpn_calls[1].n = 0 /\ lpn_calls[1].params.t = 1
    /\ error_vec(0, 1, seed_from_u64(0)).entries = << >>
    /\ lpn_calls[2].n = 7 /\ lpn_calls[2].params.t = 28
    /\ ~error_vec(28, 28, seed_from_u64(0)).panicked
    /\ Len(error_vec(28, 28, seed_from_u64(0)).entries) = 28

=============================================================================
